---- MODULE Spec2Model ----
(***************************************************************************)
(* A model of twm (tmux workspace manager).                                *)
(*                                                                         *)
(* Part I   - session naming and workspace opening (tmux.rs, handler.rs)   *)
(*            against a tmux session table that other programs change.    *)
(* Part II  - the interactive picker (ui/picker.rs, ui/tui.rs,             *)
(*            ui/event.rs).                                                *)
(*                                                                         *)
(* Strings the program takes apart (paths, session names) are sequences   *)
(* of one-character strings, so that split, join and the replacement of   *)
(* illegal characters are computed as the code computes them.             *)
(***************************************************************************)
EXTENDS Integers, Sequences, FiniteSets, TLC

(***************************************************************************)
(* Bounds of the model.                                                    *)
(***************************************************************************)
\* sessions the tmux server holds at most
MaxSessions == 3
\* candidate names one name resolution may try before the model gives up
\* on it (the code has no such limit)
MaxTries == 5
\* largest configured session_name_path_components
MaxComponents == 2
\* longest query typed into the picker
MaxFilterLen == 2

(***************************************************************************)
(* Values.                                                                 *)
(***************************************************************************)
\* an environment variable that is not set in a session
Unset == <<"unset">>
\* Option::None of a name
NoName == <<"none">>
\* no workspace type (Option::None)
NoType == <<"notype">>

\* /f/b and /g/b: two workspaces with the same last component
PathFB == <<"/", "f", "/", "b">>
PathGB == <<"/", "g", "/", "b">>
Paths == {PathFB, PathGB}

\* the name -n/--name is given in the model
ForcedNames == {<<"j">>}

\* the workspace type the handler computes for the path: /f/b is a git
\* workspace, /g/b matches no workspace definition
WorkspaceTypeOf(path) == IF path = PathFB THEN <<"g", "i", "t">> ELSE NoType

\* what get_workspace_commands yields for the path: the flattened layout
\* [x, y] for /f/b, None (no commands) for /g/b
NoCommands == <<>>
WorkspaceCommandsOf(path) == IF path = PathFB THEN <<"x", "y">> ELSE NoCommands

Invocations == {1, 2}
\* the invocations that run in the sequential specification
SeqInvocations == {1}

(***************************************************************************)
(* Strings.                                                                *)
(***************************************************************************)
Reverse(s) == [i \in 1..Len(s) |-> s[Len(s) + 1 - i]]

Take(s, n) == SubSeq(s, 1, IF n < Len(s) THEN n ELSE Len(s))

\* str::split('/'): the pieces between the separators, empty pieces included
RECURSIVE Split(_)
Split(s) ==
    IF \A i \in 1..Len(s) : s[i] # "/"
    THEN <<s>>
    ELSE LET i == CHOOSE j \in 1..Len(s) :
                      s[j] = "/" /\ \A h \in 1..(j - 1) : s[h] # "/"
         IN  <<SubSeq(s, 1, i - 1)>> \o Split(SubSeq(s, i + 1, Len(s)))

\* [&str]::join("/")
RECURSIVE Join(_)
Join(parts) ==
    IF parts = <<>> THEN <<>>
    ELSE IF Len(parts) = 1 THEN parts[1]
    ELSE parts[1] \o <<"/">> \o Join(Tail(parts))

\* impl From<&str> for SessionName: '.' becomes '_'
SessionNameFrom(s) == [i \in 1..Len(s) |-> IF s[i] = "." THEN "_" ELSE s[i]]

\* SessionName::new(path, path_components)
SessionNameNew(path, path_components) ==
    SessionNameFrom(Join(Reverse(Take(Reverse(Split(path)), path_components))))

DigitChar(d) ==
    CASE d = 0 -> "0" [] d = 1 -> "1" [] d = 2 -> "2" [] d = 3 -> "3"
      [] d = 4 -> "4" [] d = 5 -> "5" [] d = 6 -> "6" [] d = 7 -> "7"
      [] d = 8 -> "8" [] d = 9 -> "9"

\* the decimal digits of n, as format!("{}", n) writes them
RECURSIVE Decimal(_)
Decimal(n) ==
    IF n < 10 THEN <<DigitChar(n)>>
    ELSE Decimal(n \div 10) \o <<DigitChar(n % 10)>>

\* the group's name followed by the number after name_iter
GroupCandidate_from_two(group_session_name, name_iter) ==
    SessionNameFrom(group_session_name \o <<"-">> \o Decimal(name_iter + 1))

\* format!("{}-{}", group_session_name, name_iter) as a SessionName
GroupCandidate(group_session_name, name_iter) ==
    SessionNameFrom(group_session_name \o <<"-">> \o Decimal(name_iter))

(***************************************************************************)
(* State.                                                                  *)
(***************************************************************************)
VARIABLES
    \* the tmux server's sessions: a set of records, one per session name
    sessions,
    \* TwmGlobal::session_name_path_components of the loaded configuration
    session_name_path_components,
    \* the tool invocations: where each is in handle_workspace_selection /
    \* open_workspace / open_workspace_in_group, and its locals
    inv,
    \* history: the last invocation, when it was an auto-named open_workspace
    \* that ended with its session live and nothing has touched the session
    \* table since; NoPrev otherwise
    prev,
    \* the Picker: filter, cursor_pos, selection (ListState::selected),
    \* should_exit
    picker,
    \* the Nucleo matcher of the picker: the items pushed through its
    \* injector, its pattern and the pattern's status, the worker's run and
    \* the snapshot of the last tick
    matcher,
    \* the candidates the scanner thread has not pushed yet
    unscanned,
    \* Picker::get_selection: where it is, the value of its local
    \* `selection`, what it returned, and the event it handled last
    gs,
    \* the Tui and the terminal: Tui::running, raw mode, alternate screen, the
    \* panic hook, and whether the previous hook has reported a panic
    tui,
    \* one query of the match engine: the matched items before a character is
    \* typed at the end of the query, and how far the query has got
    engine,
    \* one scan of the configured search paths (the scanner thread of
    \* handle_workspace_selection): the configuration, the search path in
    \* work, the walker's entries and what has been pushed
    scan,
    \* one evaluation of workspace conditions and definitions on a directory
    cond,
    \* one resolution of the commands of a new session: the configuration,
    \* the source chosen, and the calls of get_commands_from_layout_name
    \* under way with their locals
    lay,
    \* one call of a function of the configuration or of SessionName, with
    \* its arguments and what it returned
    conf,
    \* the event threads EventHandler::new has spawned, the channel of the
    \* running picker, the key presses waiting in the terminal, and what has
    \* become of the key presses so far
    ev,
    \* the picker's query as the bytes of a String, with cursor_pos
    query

tmuxVars == <<sessions, session_name_path_components, inv, prev>>

pickerVars == <<picker, matcher, unscanned, gs, tui>>

restVars == <<engine, scan, cond, lay, conf, ev, query>>

vars == <<sessions, session_name_path_components, inv, prev,
          picker, matcher, unscanned, gs, tui, engine, scan, cond, lay, conf,
          ev, query>>

NoPrev == [path |-> NoName, name |-> NoName]

EnvVars == {"TWM", "TWM_ROOT", "TWM_TYPE", "TWM_NAME"}

\* the environment of a session no -e option was given for
EmptyEnv == [v \in EnvVars |-> Unset]

IdleInvocation ==
    [pc |-> "idle", path |-> NoName, try_grouping |-> FALSE, forced |-> NoName,
     dont_attach |-> FALSE, commands |-> NoCommands, wtype |-> NoType,
     k |-> 0, prevk |-> 0, tries |-> 0, name |-> NoName, group |-> NoName,
     name_iter |-> 0, sent |-> 0, created |-> FALSE, attached |-> NoName,
     result |-> "none", prior |-> NoPrev, layout_result |-> "ok"]

(***************************************************************************)
(* The tmux commands the tool runs, against the session table.             *)
(***************************************************************************)
\* tmux_has_session: has-session -t NAME succeeds
tmux_has_session(name) == \E s \in sessions : s.name = name

SessionNamed(name) == CHOOSE s \in sessions : s.name = name

\* get_twm_root_for_session is Ok: showenv -t NAME succeeds and prints a
\* TWM_ROOT= line
TwmRootReadable(name) ==
    tmux_has_session(name) /\ SessionNamed(name).env["TWM_ROOT"] # Unset

\* get_twm_root_for_session: the value after TWM_ROOT=
get_twm_root_for_session(name) == SessionNamed(name).env["TWM_ROOT"]

\* create_tmux_session without the -e TWM_ROOT=... option
create_tmux_session_without_root(name, workspace_type, path) ==
    [name |-> name,
     env |-> [v \in EnvVars |->
                 CASE v = "TWM" -> <<"1">>
                   [] v = "TWM_ROOT" -> Unset
                   [] v = "TWM_TYPE" ->
                        IF workspace_type = NoType THEN <<>> ELSE workspace_type
                   [] v = "TWM_NAME" -> name],
     group |-> name,
     origin |-> "open",
     keys |-> <<>>]

\* the session new-session -ds NAME -t NAME -c PATH -e ... creates
create_tmux_session(name, workspace_type, path) ==
    [name |-> name,
     env |-> [v \in EnvVars |->
                 CASE v = "TWM" -> <<"1">>
                   [] v = "TWM_ROOT" -> path
                   [] v = "TWM_TYPE" ->
                        IF workspace_type = NoType THEN <<>> ELSE workspace_type
                   [] v = "TWM_NAME" -> name],
     group |-> name,
     origin |-> "open",
     keys |-> <<>>]

\* the session new-session -ds NAME -t GROUP creates
create_tmux_session_in_group(group_session_name, name) ==
    [name |-> name, env |-> EmptyEnv, group |-> group_session_name,
     origin |-> "group", keys |-> <<>>]

\* a session some other program (or the user) made
ForeignSession(name) ==
    [name |-> name, env |-> EmptyEnv, group |-> name, origin |-> "foreign",
     keys |-> <<>>]

\* send-keys run twice for one command
SendKeysTwice(name, command) ==
    {IF s.name = name THEN [s EXCEPT !.keys = Append(Append(@, command), command)]
     ELSE s : s \in sessions}

\* send-keys -t NAME COMMAND C-m
SendKeys(name, command) ==
    {IF s.name = name THEN [s EXCEPT !.keys = Append(@, command)] ELSE s :
        s \in sessions}

(***************************************************************************)
(* Part I: the actions.  One action per tmux command the tool runs, so     *)
(* that what happens between two commands is visible.                      *)
(***************************************************************************)
\* no invocation is running
Quiescent == \A i \in Invocations : inv[i].pc = "idle"

\* the invocation ends: Ok(()) or Err from handle_workspace_selection
Finish(i, result, attached) ==
    [inv[i] EXCEPT !.pc = "done", !.result = result, !.attached = attached]

\* what the history holds once invocation i has ended with `result`
PrevAfter(i, result) ==
    IF result = "ok" /\ inv[i].forced = NoName /\ inv[i].group = NoName
    THEN [path |-> inv[i].path, name |-> inv[i].name]
    ELSE NoPrev

\* get_session_name_recursive / session_name_for_path_recursive call
\* themselves with `next_k` components, or the model gives up
Recurse(i, pc, next_k) ==
    IF inv[i].tries >= MaxTries
    THEN /\ inv' = [inv EXCEPT ![i] = Finish(i, "overflow", NoName)]
         /\ prev' = NoPrev
    ELSE /\ inv' = [inv EXCEPT ![i].pc = pc, ![i].k = next_k,
                               ![i].prevk = inv[i].k]
         /\ UNCHANGED prev

\* handle_workspace_selection, up to the first tmux command: the path comes
\* from -p (try_grouping false) or from the picker (Selection: false,
\* ModifiedSelection: true)
HandleWorkspaceSelection(i, path, try_grouping, forced, dont_attach) ==
    /\ inv[i].pc = "idle"
    /\ Cardinality(sessions) < MaxSessions
    /\ inv' = [inv EXCEPT ![i] =
                 [IdleInvocation EXCEPT
                    !.pc = IF try_grouping THEN "snp_has" ELSE "ow_name",
                    !.path = path, !.try_grouping = try_grouping,
                    !.forced = forced, !.dont_attach = dont_attach,
                    !.commands = WorkspaceCommandsOf(path),
                    !.wtype = WorkspaceTypeOf(path),
                    !.k = session_name_path_components,
                    !.prior = prev]]
    /\ UNCHANGED <<sessions, session_name_path_components, prev, pickerVars, restVars>>

\* session_name_for_path_recursive: has-session for the candidate name
SnpHasSession(i) ==
    /\ inv[i].pc = "snp_has"
    /\ LET name == SessionNameNew(inv[i].path, inv[i].k)
       IN  inv' = [inv EXCEPT
                     ![i].tries = @ + 1,
                     ![i].pc = IF tmux_has_session(name) THEN "snp_env"
                               ELSE "ow_name",
                     \* Ok(None): open the workspace normally
                     ![i].k = IF tmux_has_session(name) THEN @
                              ELSE session_name_path_components]
    /\ UNCHANGED <<sessions, session_name_path_components, prev, pickerVars, restVars>>

\* session_name_for_path_recursive: showenv for the candidate name
SnpTwmRoot(i) ==
    /\ inv[i].pc = "snp_env"
    /\ LET name == SessionNameNew(inv[i].path, inv[i].k)
       IN  IF TwmRootReadable(name) /\ get_twm_root_for_session(name) = inv[i].path
           THEN /\ inv' = [inv EXCEPT ![i].pc = "owg_name", ![i].group = name]
                /\ UNCHANGED prev
           ELSE Recurse(i, "snp_has", inv[i].k + 1)
    /\ UNCHANGED <<sessions, session_name_path_components, pickerVars, restVars>>

\* open_workspace looking for any session whose TWM_ROOT is the path before
\* it resolves a name
OpenWorkspaceName_by_root(i) ==
    /\ inv[i].pc = "ow_name"
    /\ LET rooted == {s \in sessions : s.env["TWM_ROOT"] = inv[i].path}
       IN  inv' = [inv EXCEPT
                     ![i].tries = 0, ![i].prevk = 0,
                     ![i].pc = IF inv[i].forced # NoName \/ rooted # {}
                               THEN "ow_has" ELSE "gsn_has",
                     ![i].name = IF inv[i].forced # NoName
                                 THEN SessionNameFrom(inv[i].forced)
                                 ELSE IF rooted # {}
                                 THEN (CHOOSE s \in rooted : TRUE).name
                                 ELSE NoName]
    /\ UNCHANGED <<sessions, session_name_path_components, prev, pickerVars, restVars>>

\* open_workspace: the name is the -n name or the resolved one
OpenWorkspaceName(i) ==
    /\ inv[i].pc = "ow_name"
    /\ inv' = [inv EXCEPT
                 ![i].tries = 0, ![i].prevk = 0,
                 ![i].pc = IF inv[i].forced # NoName THEN "ow_has" ELSE "gsn_has",
                 ![i].name = IF inv[i].forced # NoName
                             THEN SessionNameFrom(inv[i].forced) ELSE NoName]
    /\ UNCHANGED <<sessions, session_name_path_components, prev, pickerVars, restVars>>

\* get_session_name_recursive: has-session for the candidate name
GsnHasSession(i) ==
    /\ inv[i].pc = "gsn_has"
    /\ LET name == SessionNameNew(inv[i].path, inv[i].k)
       IN  IF tmux_has_session(name)
           THEN inv' = [inv EXCEPT ![i].tries = @ + 1, ![i].pc = "gsn_env"]
           ELSE inv' = [inv EXCEPT ![i].tries = @ + 1, ![i].pc = "ow_has",
                                   ![i].name = name]
    /\ UNCHANGED <<sessions, session_name_path_components, prev, pickerVars, restVars>>

\* the number of components get_session_name_recursive goes on with when the
\* candidate built from k components is taken by another session: k + 1 when
\* that session's TWM_ROOT was read, k + 2 when it was not

NextComponents(k, readable) == IF readable THEN k + 1 ELSE k + 2

\* get_session_name_recursive taking any existing session of the name for its
\* own
AcceptsAny(name, path) == tmux_has_session(name)

\* get_session_name_recursive accepts an existing session of this name: its
\* TWM_ROOT is readable and is the path
AcceptsExisting(name, path) ==
    TwmRootReadable(name) /\ get_twm_root_for_session(name) = path

\* get_session_name_recursive: showenv for the candidate name
GsnTwmRoot(i) ==
    /\ inv[i].pc = "gsn_env"
    /\ LET name == SessionNameNew(inv[i].path, inv[i].k)
       IN  IF AcceptsExisting(name, inv[i].path)
           THEN /\ inv' = [inv EXCEPT ![i].pc = "ow_has", ![i].name = name]
                /\ UNCHANGED prev
           ELSE Recurse(i, "gsn_has",
                        NextComponents(inv[i].k, TwmRootReadable(name)))
    /\ UNCHANGED <<sessions, session_name_path_components, pickerVars, restVars>>

\* open_workspace: has-session for the chosen name
OwHasSession(i) ==
    /\ inv[i].pc = "ow_has"
    /\ inv' = [inv EXCEPT ![i].pc = IF tmux_has_session(inv[i].name)
                                    THEN "ow_attach" ELSE "ow_create"]
    /\ UNCHANGED <<sessions, session_name_path_components, prev, pickerVars, restVars>>

\* open_workspace: new-session; tmux refuses a name that is in use.  When
\* the session is made, find_config_file, get_layout_selection and
\* get_workspace_commands follow, which run no tmux command; an error of
\* theirs is returned with `?`
OwCreateSession(i) ==
    /\ inv[i].pc = "ow_create"
    /\ IF tmux_has_session(inv[i].name)
       THEN /\ inv' = [inv EXCEPT ![i] = Finish(i, "err", NoName)]
            /\ prev' = NoPrev
            /\ UNCHANGED sessions
       ELSE /\ sessions' = sessions \cup
                  {[create_tmux_session(inv[i].name, inv[i].wtype, inv[i].path)
                      EXCEPT !.origin = IF inv[i].forced = NoName
                                        THEN "auto" ELSE "forced"]}
            /\ IF inv[i].layout_result # "ok"
               THEN /\ inv' = [inv EXCEPT
                                ![i] = [Finish(i, "err", NoName)
                                           EXCEPT !.created = TRUE]]
                    /\ prev' = NoPrev
               ELSE /\ inv' = [inv EXCEPT
                                ![i].created = TRUE,
                                ![i].pc = IF inv[i].commands = NoCommands
                                          THEN "ow_attach" ELSE "ow_send"]
                    /\ UNCHANGED prev
    /\ UNCHANGED <<session_name_path_components, pickerVars, restVars>>

\* send_commands_to_session going on to attach when a send-keys fails
OwSendKeys_ignoring_failure(i) ==
    /\ inv[i].pc = "ow_send"
    /\ IF tmux_has_session(inv[i].name)
       THEN /\ sessions' = SendKeys(inv[i].name, inv[i].commands[inv[i].sent + 1])
            /\ inv' = [inv EXCEPT
                         ![i].sent = @ + 1,
                         ![i].pc = IF inv[i].sent + 1 = Len(inv[i].commands)
                                   THEN "ow_attach" ELSE "ow_send"]
            /\ UNCHANGED prev
       ELSE /\ inv' = [inv EXCEPT ![i].pc = "ow_attach"]
            /\ prev' = NoPrev
            /\ UNCHANGED sessions
    /\ UNCHANGED <<session_name_path_components, pickerVars, restVars>>

\* send_commands_to_session: one send-keys
OwSendKeys(i) ==
    /\ inv[i].pc = "ow_send"
    /\ IF tmux_has_session(inv[i].name)
       THEN /\ sessions' = SendKeys(inv[i].name, inv[i].commands[inv[i].sent + 1])
            /\ inv' = [inv EXCEPT
                         ![i].sent = @ + 1,
                         ![i].pc = IF inv[i].sent + 1 = Len(inv[i].commands)
                                   THEN "ow_attach" ELSE "ow_send"]
            /\ UNCHANGED prev
       ELSE /\ inv' = [inv EXCEPT ![i] = Finish(i, "err", NoName)]
            /\ prev' = NoPrev
            /\ UNCHANGED sessions
    /\ UNCHANGED <<session_name_path_components, pickerVars, restVars>>

\* attach_to_tmux_session unless -d; the end of open_workspace and of
\* open_workspace_in_group
Attach(i) ==
    IF inv[i].dont_attach
    THEN /\ inv' = [inv EXCEPT ![i] = Finish(i, "ok", NoName)]
         /\ prev' = IF tmux_has_session(inv[i].name)
                     THEN PrevAfter(i, "ok") ELSE NoPrev
    ELSE IF tmux_has_session(inv[i].name)
    THEN /\ inv' = [inv EXCEPT ![i] = Finish(i, "ok", inv[i].name)]
         /\ prev' = PrevAfter(i, "ok")
    ELSE /\ inv' = [inv EXCEPT ![i] = Finish(i, "err", NoName)]
         /\ prev' = NoPrev

OwAttach(i) ==
    /\ inv[i].pc = "ow_attach"
    /\ Attach(i)
    /\ UNCHANGED <<sessions, session_name_path_components, pickerVars, restVars>>

\* open_workspace_in_group: the name is the -n name or the first free NAME-n
OwgName(i) ==
    /\ inv[i].pc = "owg_name"
    /\ inv' = [inv EXCEPT
                 ![i].pc = IF inv[i].forced # NoName THEN "owg_create"
                           ELSE "ggn_has",
                 ![i].name_iter = IF inv[i].forced # NoName THEN 0 ELSE 1,
                 ![i].name = IF inv[i].forced # NoName
                             THEN SessionNameFrom(inv[i].forced) ELSE NoName]
    /\ UNCHANGED <<sessions, session_name_path_components, prev, pickerVars, restVars>>

\* get_group_session_name: has-session for GROUP-n
GgnHasSession(i) ==
    /\ inv[i].pc = "ggn_has"
    /\ LET name == GroupCandidate(inv[i].group, inv[i].name_iter)
       IN  IF tmux_has_session(name)
           THEN inv' = [inv EXCEPT ![i].name_iter = @ + 1]
           ELSE inv' = [inv EXCEPT ![i].pc = "owg_create", ![i].name = name]
    /\ UNCHANGED <<sessions, session_name_path_components, prev, pickerVars, restVars>>

\* open_workspace_in_group: new-session -t GROUP
OwgCreateSession(i) ==
    /\ inv[i].pc = "owg_create"
    /\ IF tmux_has_session(inv[i].name)
       THEN /\ inv' = [inv EXCEPT ![i] = Finish(i, "err", NoName)]
            /\ UNCHANGED sessions
       ELSE /\ sessions' = sessions \cup
                  {create_tmux_session_in_group(inv[i].group, inv[i].name)}
            /\ inv' = [inv EXCEPT ![i].created = TRUE, ![i].pc = "owg_attach"]
    /\ prev' = NoPrev
    /\ UNCHANGED <<session_name_path_components, pickerVars, restVars>>

OwgAttach(i) ==
    /\ inv[i].pc = "owg_attach"
    /\ Attach(i)
    /\ UNCHANGED <<sessions, session_name_path_components, pickerVars, restVars>>

\* the process exits (or, attaching outside tmux, has become the client)
Exit(i) ==
    /\ inv[i].pc = "done"
    /\ inv' = [inv EXCEPT ![i] = IdleInvocation]
    /\ UNCHANGED <<sessions, session_name_path_components, prev, pickerVars, restVars>>

(***************************************************************************)
(* Other programs and the user change the session table.                   *)
(***************************************************************************)
\* the names other programs give their sessions in the model: every name
\* the tool can derive from a path
ForeignNames ==
    {SessionNameNew(p, k) : p \in Paths, k \in 1..(MaxComponents + 1)}

\* tmux new-session -s NAME, by someone else
ExternalNewSession(name) ==
    /\ Quiescent
    /\ Cardinality(sessions) < MaxSessions
    /\ ~tmux_has_session(name)
    /\ sessions' = sessions \cup {ForeignSession(name)}
    /\ prev' = NoPrev
    /\ UNCHANGED <<session_name_path_components, inv, pickerVars, restVars>>

\* tmux kill-session -t NAME, or the session's last shell exits
ExternalKillSession(name) ==
    /\ Quiescent
    /\ tmux_has_session(name)
    /\ sessions' = {s \in sessions : s.name # name}
    /\ prev' = NoPrev
    /\ UNCHANGED <<session_name_path_components, inv, pickerVars, restVars>>

\* the ways the commands of a new session are resolved: well, with a
\* .twm.yaml that does not parse, or with -l and the layout picker left
\* without a choice
LayoutResults == {"ok", "unparsable", "cancelled"}

\* handle_workspace_selection of a path given with -p, without -n, where the
\* resolution of the commands ends as `layout_result` says
HandleWorkspaceSelectionLayout(i, path, dont_attach, layout_result) ==
    /\ inv[i].pc = "idle"
    /\ Cardinality(sessions) < MaxSessions
    /\ inv' = [inv EXCEPT ![i] =
                 [IdleInvocation EXCEPT
                    !.pc = "ow_name",
                    !.path = path, !.dont_attach = dont_attach,
                    !.commands = WorkspaceCommandsOf(path),
                    !.wtype = WorkspaceTypeOf(path),
                    !.k = session_name_path_components,
                    !.layout_result = layout_result]]
    /\ prev' = NoPrev
    /\ UNCHANGED <<sessions, session_name_path_components, pickerVars, restVars>>

\* tmux new-session -s NAME, by someone else, while the tool runs
NewSessionMeanwhile(name) ==
    /\ ~Quiescent
    /\ Cardinality(sessions) < MaxSessions
    /\ ~tmux_has_session(name)
    /\ sessions' = sessions \cup {ForeignSession(name)}
    /\ prev' = NoPrev
    /\ UNCHANGED <<session_name_path_components, inv, pickerVars, restVars>>

\* tmux kill-session -t NAME, by someone else, while the tool runs
KillSessionMeanwhile(name) ==
    /\ ~Quiescent
    /\ tmux_has_session(name)
    /\ sessions' = {s \in sessions : s.name # name}
    /\ prev' = NoPrev
    /\ UNCHANGED <<session_name_path_components, inv, pickerVars, restVars>>

(***************************************************************************)
(* Part II: the picker.                                                    *)
(*                                                                         *)
(* The match engine (nucleo) and the list widget (ratatui) are libraries;  *)
(* they are modelled by what the picker's calls rely on.  A query of       *)
(* letters matches an item when its letters occur in the item in order.    *)
(* The order of the matched items of a non-empty query is the engine's     *)
(* ranking, which the model leaves open: any order.                        *)
(***************************************************************************)
\* Option::None of ListState::selected
NoRow == -1

\* the workspaces the scanner finds
Candidates == {<<"a">>, <<"a", "b">>, <<"b">>}

\* the letters typed into the query
FilterChars == {"a", "b"}

NoMods == {}

Key(code, ch, modifiers) == [code |-> code, ch |-> ch, modifiers |-> modifiers]

\* the key presses the event thread reads from the terminal
Keys ==
    {Key(c, "", NoMods) :
        c \in {"Esc", "Enter", "Backspace", "Delete", "Up", "Down", "Left",
               "Right", "Tab"}}
    \cup {Key("Enter", "", {m}) : m \in {"CONTROL", "SHIFT", "ALT"}}
    \cup {Key("Char", c, NoMods) : c \in FilterChars}
    \cup {Key("Char", c, {"CONTROL"}) : c \in {"c", "p", "n", "b", "f", "x"}}

\* Event::Tick
TickEvent == Key("Tick", "", NoMods)

Modified(key) == key.modifiers \cap {"CONTROL", "SHIFT", "ALT"} # {}

\* what gs.last keeps of the event handled last: "None" once the picker has
\* been drawn again
KindOf(event) ==
    CASE event.code = "Enter" -> IF Modified(event) THEN "ModifiedEnter" ELSE "Enter"
      [] event.code \in {"Esc", "Tick"} -> event.code
      [] OTHER -> "Key"

\* PickerSelection
PickerSelectionNone == [kind |-> "None", text |-> <<>>]
PickerSelectionOf(kind, text) == [kind |-> kind, text |-> text]

\* no run of the matcher's worker is outstanding
NoRun == [pattern |-> <<"-">>, count |-> -1]

\* a fuzzy atom: the letters of `needle` occur in `item`, in order
RECURSIVE FuzzyMatches(_, _)
FuzzyMatches(needle, item) ==
    IF needle = <<>> THEN TRUE
    ELSE IF item = <<>> THEN FALSE
    ELSE IF Head(needle) = Head(item) THEN FuzzyMatches(Tail(needle), Tail(item))
    ELSE FuzzyMatches(needle, Tail(item))

\* a substring atom: `needle` occurs in `item` as it is
SubstringMatches(needle, item) ==
    \E i \in 0..(Len(item) - Len(needle)) :
        SubSeq(item, i + 1, i + Len(needle)) = needle

\* the pattern Pattern::reparse parses from the query matches the item.  The
\* query is parsed in the engine's syntax, of which the model has the
\* one-word queries: a word is a fuzzy atom, a word that begins with `!` is
\* a negated atom, which matches the items its rest is no substring of; an
\* atom with nothing to look for is dropped, and no atom matches everything.
Matches(pattern, item) ==
    IF pattern # <<>> /\ Head(pattern) = "!"
    THEN Tail(pattern) = <<>> \/ ~SubstringMatches(Tail(pattern), item)
    ELSE FuzzyMatches(pattern, item)

\* the sequences that list every element of S once
Orders(S) ==
    {q \in [1..Cardinality(S) -> S] : \A i, j \in 1..Cardinality(S) :
                                          q[i] = q[j] => i = j}

\* the items among the first `count` pushed that match `pattern`, in push
\* order
MatchedInPushOrder(items, pattern, count) ==
    LET F[n \in 0..count] ==
            IF n = 0 THEN <<>>
            ELSE IF Matches(pattern, items[n]) THEN Append(F[n - 1], items[n])
            ELSE F[n - 1]
    IN  F[count]

\* the snapshots a finished run of the worker can leave: an empty pattern
\* keeps the push order, any other pattern ranks the matched items
Results(items, run) ==
    LET inOrder == MatchedInPushOrder(items, run.pattern, run.count)
    IN  IF run.pattern = <<>>
        THEN {[item_count |-> run.count, matched |-> inOrder]}
        ELSE {[item_count |-> run.count, matched |-> q] :
                 q \in Orders({inOrder[i] : i \in 1..Len(inOrder)})}

\* Nucleo::tick(10): the matchers the call can leave.  A changed pattern
\* stops the worker and starts a run with the new pattern, whose result is
\* in the snapshot if it ends within the timeout.  Otherwise the snapshot
\* takes the result of the outstanding run if that has ended, and a run
\* starts when items were pushed since the last one.
Tick(m) ==
    IF m.status # "Unchanged"
    THEN LET run == [pattern |-> m.pattern, count |-> Len(m.items)]
             before == {m.snapshot} \cup
                       (IF m.pending # NoRun THEN Results(m.items, m.pending)
                        ELSE {})
         IN  {[m EXCEPT !.status = "Unchanged", !.snapshot = s,
                        !.pending = run, !.worker_count = run.count] :
                 s \in before}
             \cup
             {[m EXCEPT !.status = "Unchanged", !.snapshot = s,
                        !.pending = NoRun, !.worker_count = run.count] :
                 s \in Results(m.items, run)}
    ELSE (IF m.pending # NoRun THEN {m} ELSE {})
         \cup
         {[m EXCEPT !.snapshot = s,
                    !.pending = IF Len(m.items) > m.worker_count
                                THEN [pattern |-> m.pattern,
                                      count |-> Len(m.items)]
                                ELSE NoRun,
                    !.worker_count = IF Len(m.items) > m.worker_count
                                     THEN Len(m.items) ELSE @] :
             s \in IF m.pending # NoRun THEN Results(m.items, m.pending)
                   ELSE {m.snapshot}}

\* snapshot.matched_item_count()
matched_item_count(m) == Len(m.snapshot.matched)

\* the selection Picker::render leaves for a snapshot of `count` matched items
ClampSelection(selected, count) ==
    IF selected # NoRow
    THEN IF count = 0 THEN NoRow
         ELSE IF selected > count THEN count - 1
         ELSE selected
    ELSE IF count > 0 THEN 0 ELSE NoRow

\* Picker::get_selected_text taking the first row whatever is highlighted
get_selected_text_first_row(p, m) ==
    IF p.selection # NoRow /\ matched_item_count(m) > 0
    THEN m.snapshot.matched[1]
    ELSE NoName

\* Picker::get_selected_text: the text of the highlighted row of the
\* snapshot, NoName for None
get_selected_text(p, m) ==
    IF p.selection # NoRow /\ p.selection < matched_item_count(m)
    THEN m.snapshot.matched[p.selection + 1]
    ELSE NoName

\* Picker::move_cursor_up
move_cursor_up(p, m) ==
    LET item_count == matched_item_count(m)
    IN  IF item_count = 0 THEN p
        ELSE IF p.selection = NoRow THEN [p EXCEPT !.selection = 0]
        ELSE IF p.selection >= item_count - 1 THEN p
        ELSE [p EXCEPT !.selection = @ + 1]

\* Picker::move_cursor_down
move_cursor_down(p) ==
    IF p.selection = NoRow THEN [p EXCEPT !.selection = 0]
    ELSE IF p.selection = 0 THEN p
    ELSE [p EXCEPT !.selection = @ - 1]

\* Picker::move_cursor_left
move_cursor_left(p) ==
    IF p.cursor_pos > 0 THEN [p EXCEPT !.cursor_pos = @ - 1] ELSE p

\* Picker::move_cursor_right
move_cursor_right(p) ==
    IF p.cursor_pos < Len(p.filter) THEN [p EXCEPT !.cursor_pos = @ + 1] ELSE p

\* str::starts_with
StartsWith(s, prefix) ==
    Len(prefix) <= Len(s) /\ SubSeq(s, 1, Len(prefix)) = prefix

\* Picker::update_matcher_pattern passing append = true whatever the filters
update_matcher_pattern_always_append(m, filter, prev_filter) ==
    [m EXCEPT !.pattern = filter,
              !.status = IF @ = "Rescore" THEN @ ELSE "Update"]

\* Picker::update_matcher_pattern: Pattern::reparse with append =
\* filter.starts_with(prev_filter)
update_matcher_pattern(m, filter, prev_filter) ==
    [m EXCEPT !.pattern = filter,
              !.status = IF StartsWith(filter, prev_filter)
                         THEN (IF @ = "Rescore" THEN @ ELSE "Update")
                         ELSE "Rescore"]

\* String::insert(idx, c)
Insert(s, idx, c) == SubSeq(s, 1, idx) \o <<c>> \o SubSeq(s, idx + 1, Len(s))

\* String::remove(idx)
Remove(s, idx) == SubSeq(s, 1, idx) \o SubSeq(s, idx + 2, Len(s))

\* Picker::update_filter overwriting the filter with the character
update_filter_replacing(p, m, c) ==
    [picker |-> [p EXCEPT !.filter = <<c>>, !.cursor_pos = 1],
     matcher |-> update_matcher_pattern(m, <<c>>, p.filter)]

\* Picker::update_filter: the picker and the matcher it leaves
update_filter(p, m, c) ==
    LET filter == Insert(p.filter, p.cursor_pos, c)
    IN  [picker |-> [p EXCEPT !.filter = filter, !.cursor_pos = @ + 1],
         matcher |-> update_matcher_pattern(m, filter, p.filter)]

\* Picker::backspace
backspace(p, m) ==
    IF p.cursor_pos = 0 THEN [picker |-> p, matcher |-> m]
    ELSE LET filter == Remove(p.filter, p.cursor_pos - 1)
         IN  [picker |-> [p EXCEPT !.filter = filter, !.cursor_pos = @ - 1],
              matcher |-> IF filter # p.filter
                          THEN update_matcher_pattern(m, filter, p.filter)
                          ELSE m]

\* Picker::delete
delete(p, m) ==
    IF p.cursor_pos = Len(p.filter) THEN [picker |-> p, matcher |-> m]
    ELSE LET filter == Remove(p.filter, p.cursor_pos)
         IN  [picker |-> [p EXCEPT !.filter = filter],
              matcher |-> IF filter # p.filter
                          THEN update_matcher_pattern(m, filter, p.filter)
                          ELSE m]

Only(p, m) == [picker |-> p, matcher |-> m, selection |-> PickerSelectionNone]

\* Picker::update, the arms of its match other than KeyCode::Esc
update_key(p, m, key) ==
    CASE key.code = "Enter" ->
            IF get_selected_text(p, m) # NoName
            THEN [picker |-> [p EXCEPT !.should_exit = TRUE],
                  matcher |-> m,
                  selection |->
                      PickerSelectionOf(IF Modified(key) THEN "ModifiedSelection"
                                        ELSE "Selection",
                                        get_selected_text(p, m))]
            ELSE Only(p, m)
      [] key.code = "Backspace" ->
            Only(backspace(p, m).picker, backspace(p, m).matcher)
      [] key.code = "Delete" -> Only(delete(p, m).picker, delete(p, m).matcher)
      [] key.code = "Up" -> Only(move_cursor_up(p, m), m)
      [] key.code = "Down" -> Only(move_cursor_down(p), m)
      [] key.code = "Left" -> Only(move_cursor_left(p), m)
      [] key.code = "Right" -> Only(move_cursor_right(p), m)
      [] key.code = "Char" /\ "CONTROL" \in key.modifiers ->
            CASE key.ch \in {"c", "d", "z"} ->
                    Only([p EXCEPT !.should_exit = TRUE], m)
              [] key.ch = "p" -> Only(move_cursor_up(p, m), m)
              [] key.ch = "n" -> Only(move_cursor_down(p), m)
              [] key.ch \in {"b", "h"} -> Only(move_cursor_left(p), m)
              [] key.ch \in {"f", "l"} -> Only(move_cursor_right(p), m)
              [] OTHER -> Only(p, m)
      [] key.code = "Char" /\ "CONTROL" \notin key.modifiers ->
            Only(update_filter(p, m, key.ch).picker,
                 update_filter(p, m, key.ch).matcher)
      [] OTHER -> Only(p, m)

\* Picker::update with an Esc arm that does not set should_exit
update_ignoring_esc(p, m, key) ==
    IF key.code = "Esc" THEN Only(p, m) ELSE update_key(p, m, key)

\* Picker::update: the picker and the matcher it leaves, and the
\* PickerSelection it returns
update(p, m, key) ==
    IF key.code = "Esc" THEN Only([p EXCEPT !.should_exit = TRUE], m)
    ELSE update_key(p, m, key)

(***************************************************************************)
(* Part II: the actions.  The restoring writes to the terminal             *)
(* of Tui::exit (disable_raw_mode, LeaveAlternateScreen, show_cursor) are  *)
(* taken to succeed; every other terminal call of get_selection may fail.  *)
(***************************************************************************)
\* Tui::reset: the terminal it leaves
reset(t) == [t EXCEPT !.raw_mode = FALSE, !.alternate_screen = FALSE]

\* Tui::exit
exit(t) ==
    IF ~t.running THEN t
    ELSE [reset(t) EXCEPT !.cursor_hidden = FALSE, !.running = FALSE]

\* a Tui whose Drop does nothing
drop_without_exit(t) == t

\* impl Drop for Tui
drop(t) == exit(t)

\* Tui::enter, which fails at `fail_at` ("none": it succeeds)
enter(t, fail_at) ==
    IF t.running THEN t
    ELSE LET t1 == [t EXCEPT !.running = TRUE]
             t2 == [t1 EXCEPT !.raw_mode = TRUE]
             t3 == [t2 EXCEPT !.alternate_screen = TRUE]
             t4 == [t3 EXCEPT !.hook = TRUE]
             t5 == [t4 EXCEPT !.cursor_hidden = TRUE]
         IN  CASE fail_at = "enable_raw_mode" -> t1
               [] fail_at = "EnterAlternateScreen" -> t2
               [] fail_at = "hide_cursor" -> t4
               [] fail_at = "clear" -> t5
               [] OTHER -> t5

EnterFailures == {"enable_raw_mode", "EnterAlternateScreen", "hide_cursor", "clear"}

\* get_selection returns `result` ("ok" with the selection, or "err"); the
\* local Tui is dropped on the way out
Return(result, selection) ==
    /\ gs' = [gs EXCEPT !.pc = "returned", !.result = result,
                        !.selection = selection]
    /\ tui' = drop(tui)

\* Picker::get_selection down to the loop: Terminal::new, Tui::new,
\* Tui::enter
GetSelectionEnter(fail_at) ==
    /\ gs.pc = "start"
    /\ IF fail_at = "Terminal::new"
       THEN /\ gs' = [gs EXCEPT !.pc = "returned", !.result = "err"]
            /\ UNCHANGED tui
       ELSE IF fail_at = "none"
       THEN /\ tui' = enter(tui, fail_at)
            /\ gs' = [gs EXCEPT !.pc = "draw", !.entered = TRUE]
       ELSE /\ tui' = drop(enter(tui, fail_at))
            /\ gs' = [gs EXCEPT !.pc = "returned", !.result = "err",
                                !.entered = TRUE]
    /\ UNCHANGED <<picker, matcher, unscanned, tmuxVars, restVars>>

\* tui.draw(self): Picker::render on the frame
Draw ==
    /\ gs.pc = "draw"
    /\ \E m \in Tick(matcher) :
          /\ matcher' = m
          /\ picker' = [picker EXCEPT
                          !.selection = ClampSelection(@, matched_item_count(m))]
    /\ gs' = [gs EXCEPT !.pc = "next", !.last = "None"]
    /\ UNCHANGED <<unscanned, tui, tmuxVars, restVars>>

\* tui.draw(self)? returns the error of Terminal::draw
DrawError ==
    /\ gs.pc = "draw"
    /\ Return("err", gs.selection)
    /\ UNCHANGED <<picker, matcher, unscanned, tmuxVars, restVars>>

\* a panic while drawing: the hook Tui::enter installed resets the terminal
\* and calls the previous hook, which reports the panic; unwinding then
\* drops the Tui
DrawPanic ==
    /\ gs.pc = "draw"
    /\ gs' = [gs EXCEPT !.pc = "panicked", !.result = "panic",
                        !.restored_at_report =
                            IF tui.hook
                            THEN ~reset(tui).raw_mode /\ ~reset(tui).alternate_screen
                            ELSE ~tui.raw_mode /\ ~tui.alternate_screen]
    /\ tui' = drop(IF tui.hook THEN reset(tui) ELSE tui)
    /\ UNCHANGED <<picker, matcher, unscanned, tmuxVars, restVars>>

\* the loop of get_selection after an event: once more, or tui.exit()? and
\* Ok(selection)
AfterEvent(p, selection, event) ==
    IF p.should_exit
    THEN /\ tui' = drop(exit(tui))
         /\ gs' = [gs EXCEPT !.pc = "returned", !.result = "ok",
                             !.selection = selection, !.last = KindOf(event)]
    ELSE /\ gs' = [gs EXCEPT !.pc = "draw", !.selection = selection,
                             !.last = KindOf(event)]
         /\ UNCHANGED tui

\* tui.events.next() is Event::Tick
NextTick ==
    /\ gs.pc = "next"
    /\ AfterEvent(picker, PickerSelectionNone, TickEvent)
    /\ UNCHANGED <<picker, matcher, unscanned, tmuxVars, restVars>>

\* tui.events.next() is Event::Key(key): Picker::update(key)
NextKey(key) ==
    /\ gs.pc = "next"
    /\ key.code = "Char" /\ "CONTROL" \notin key.modifiers
          => Len(picker.filter) < MaxFilterLen
    /\ LET u == update(picker, matcher, key)
       IN  /\ picker' = u.picker
           /\ matcher' = u.matcher
           /\ AfterEvent(u.picker, u.selection, key)
    /\ UNCHANGED <<unscanned, tmuxVars, restVars>>

\* tui.events.next()? returns the error of the channel
NextError ==
    /\ gs.pc = "next"
    /\ Return("err", gs.selection)
    /\ UNCHANGED <<picker, matcher, unscanned, tmuxVars, restVars>>

\* the handler's `match picker.get_selection(tui)?` and what cli::parse and
\* main make of it: the `?` hands on the Err of get_selection,
\* PickerSelection::None is turned into an Err by anyhow::bail!, and main
\* returns the Err (the process reports it and exits with a failure
\* status); with a selection the handler goes on to open it
HandleSelection ==
    /\ gs.pc = "returned"
    /\ gs' = [gs EXCEPT
                !.pc = "handled",
                !.outcome = IF gs.result = "err" THEN "Err"
                            ELSE IF gs.selection.kind = "None" THEN "Err"
                            ELSE "Selected"]
    /\ UNCHANGED <<picker, matcher, unscanned, tui, tmuxVars, restVars>>

\* the scanner thread: injector.push of a candidate, whatever the picker
\* does and also after it has returned
InjectorPush(c) ==
    /\ c \in unscanned
    /\ unscanned' = unscanned \ {c}
    /\ matcher' = [matcher EXCEPT !.items = Append(@, c)]
    /\ UNCHANGED <<picker, gs, tui, tmuxVars, restVars>>

\* get_selection has not been called, the terminal is as the shell left it
InitTerminal ==
    /\ gs = [pc |-> "start", result |-> "none", selection |-> PickerSelectionNone,
             last |-> "None", entered |-> FALSE, restored_at_report |-> TRUE,
             outcome |-> "none"]
    /\ tui = [running |-> FALSE, raw_mode |-> FALSE, alternate_screen |-> FALSE,
              hook |-> FALSE, cursor_hidden |-> FALSE]

InitPickerVars ==
    /\ picker = [filter |-> <<>>, cursor_pos |-> 0, selection |-> NoRow,
                 should_exit |-> FALSE]
    /\ matcher = [items |-> <<>>, pattern |-> <<>>, status |-> "Unchanged",
                  pending |-> NoRun, worker_count |-> 0,
                  snapshot |-> [item_count |-> 0, matched |-> <<>>]]
    /\ unscanned = Candidates
    /\ InitTerminal

\* no query, no scan and no evaluation is under way
NoEngine == [pc |-> "off", before |-> {}]
NoScan == [pc |-> "off"]
NoCond == [pc |-> "off"]
NoLay == [pc |-> "off"]
NoConf == [pc |-> "off"]
NoEv == [pc |-> "off"]
NoQuery == [pc |-> "off"]

InitRestVars ==
    /\ engine = NoEngine
    /\ scan = NoScan
    /\ cond = NoCond
    /\ lay = NoLay
    /\ conf = NoConf
    /\ ev = NoEv
    /\ query = NoQuery

\* no tool invocation runs and the tmux server has no session
InitTmuxVars ==
    /\ sessions = {}
    /\ session_name_path_components = 1
    /\ inv = [i \in Invocations |-> IdleInvocation]
    /\ prev = NoPrev

(***************************************************************************)
(* Part III: the file system, workspace conditions and definitions         *)
(* (workspace.rs).  File names are relative names of one component.        *)
(***************************************************************************)
\* the directories of the file system: /r, /r/a, /r/a/b, /r/n, /r/n/p
Dirs ==
    {<<"/", "r">>, <<"/", "r", "/", "a">>, <<"/", "r", "/", "a", "/", "b">>,
     <<"/", "r", "/", "n">>, <<"/", "r", "/", "n", "/", "p">>}

\* the names of the files in a directory: g (.git) and s (setup.py)
FilesOf(dir) ==
    CASE dir = <<"/", "r", "/", "a">> -> {<<"g">>}
      [] dir = <<"/", "r", "/", "a", "/", "b">> -> {<<"g">>, <<"s">>}
      [] dir = <<"/", "r", "/", "n">> -> {<<"s">>}
      [] dir = <<"/", "r", "/", "n", "/", "p">> -> {<<"g">>}
      [] OTHER -> {}

\* the file names conditions list: g, s, and x, which no directory has
FileNames == {<<"g">>, <<"s">>, <<"x">>}

\* Path::join with a relative name
join(path, name) == path \o <<"/">> \o name

\* Path::exists
exists(path) ==
    \/ path \in Dirs
    \/ \E d \in Dirs : \E f \in FilesOf(d) : path = join(d, f)

\* HasAnyFileCondition::meets_condition
HasAnyFileCondition(files, path) ==
    LET found[i \in 0..Len(files)] ==
            IF i = 0 THEN FALSE
            ELSE IF found[i - 1] THEN TRUE
            ELSE exists(join(path, files[i]))
    IN  found[Len(files)]

\* HasAllFilesCondition::meets_condition looking at the first file only
HasAllFilesCondition_first_only(files, path) ==
    files = <<>> \/ exists(join(path, files[1]))

\* HasAllFilesCondition::meets_condition
HasAllFilesCondition(files, path) ==
    LET all[i \in 0..Len(files)] ==
            IF i = 0 THEN TRUE
            ELSE IF ~all[i - 1] THEN FALSE
            ELSE exists(join(path, files[i]))
    IN  all[Len(files)]

\* MissingAnyFileCondition::meets_condition
MissingAnyFileCondition(files, path) ==
    LET missing[i \in 0..Len(files)] ==
            IF i = 0 THEN FALSE
            ELSE IF missing[i - 1] THEN TRUE
            ELSE ~exists(join(path, files[i]))
    IN  missing[Len(files)]

\* MissingAllFilesCondition::meets_condition
MissingAllFilesCondition(files, path) ==
    LET none[i \in 0..Len(files)] ==
            IF i = 0 THEN TRUE
            ELSE IF ~none[i - 1] THEN FALSE
            ELSE ~exists(join(path, files[i]))
    IN  none[Len(files)]

\* NullCondition::meets_condition
NullCondition(files, path) == TRUE

\* WorkspaceConditionEnum::meets_condition (enum_dispatch)
meets_condition(c, path) ==
    CASE c.kind = "HasAnyFile" -> HasAnyFileCondition(c.files, path)
      [] c.kind = "HasAllFiles" -> HasAllFilesCondition(c.files, path)
      [] c.kind = "MissingAnyFile" -> MissingAnyFileCondition(c.files, path)
      [] c.kind = "MissingAllFiles" -> MissingAllFilesCondition(c.files, path)
      [] c.kind = "Null" -> NullCondition(c.files, path)

\* path_meets_workspace_conditions: conditions.iter().all(..)
path_meets_workspace_conditions(path, conditions) ==
    LET all[i \in 0..Len(conditions)] ==
            IF i = 0 THEN TRUE
            ELSE IF ~all[i - 1] THEN FALSE
            ELSE meets_condition(conditions[i], path)
    IN  all[Len(conditions)]

\* get_workspace_type_for_path returning the last definition that matches
get_workspace_type_for_path_last(path, workspace_definitions) ==
    LET last[i \in 0..Len(workspace_definitions)] ==
            IF i = 0 THEN NoType
            ELSE IF path_meets_workspace_conditions(
                        path, workspace_definitions[i].conditions)
            THEN workspace_definitions[i].name
            ELSE last[i - 1]
    IN  last[Len(workspace_definitions)]

\* get_workspace_type_for_path: the name of the first definition whose
\* conditions the path meets, NoType for None
get_workspace_type_for_path(path, workspace_definitions) ==
    LET from[i \in 1..(Len(workspace_definitions) + 1)] ==
            IF i > Len(workspace_definitions) THEN NoType
            ELSE IF path_meets_workspace_conditions(
                        path, workspace_definitions[i].conditions)
            THEN workspace_definitions[i].name
            ELSE from[i + 1]
    IN  from[1]

Condition(kind, files) == [kind |-> kind, files |-> files]

WorkspaceDefinition(name, conditions) == [name |-> name, conditions |-> conditions]

\* the definitions [py: has_any_file [s], git: has_any_file [g]]
PyDefinition ==
    WorkspaceDefinition(<<"p", "y">>, <<Condition("HasAnyFile", <<<<"s">>>>)>>)
GitDefinition ==
    WorkspaceDefinition(<<"g", "i", "t">>, <<Condition("HasAnyFile", <<<<"g">>>>)>>)

(***************************************************************************)
(* The conditions' specification: conditions and definition lists are      *)
(* evaluated on a directory.                                               *)
(***************************************************************************)
\* the files a condition lists at most
MaxFiles == 2

FileLists == UNION {[1..n -> FileNames] : n \in 0..MaxFiles}

Conditions ==
    {Condition(kind, files) :
        kind \in {"HasAnyFile", "HasAllFiles", "MissingAnyFile",
                  "MissingAllFiles"},
        files \in FileLists}
    \cup {Condition("Null", <<>>)}

\* the definitions of the evaluated lists: py, git, one with two
\* conditions, one that every directory meets, one that needs both files
Definitions ==
    {PyDefinition, GitDefinition,
     WorkspaceDefinition(<<"n", "o", "s">>,
                         <<Condition("HasAnyFile", <<<<"g">>>>),
                           Condition("MissingAllFiles", <<<<"s">>>>)>>),
     WorkspaceDefinition(<<"a", "n", "y">>, <<Condition("Null", <<>>)>>),
     WorkspaceDefinition(<<"a", "l", "l">>,
                         <<Condition("HasAllFiles", <<<<"g">>, <<"s">>>>)>>)}

\* the definitions a list has at most
MaxDefinitions == 2

DefinitionLists == UNION {[1..n -> Definitions] : n \in 0..MaxDefinitions}

InitConditions ==
    /\ InitTmuxVars
    /\ InitPickerVars
    /\ engine = NoEngine
    /\ scan = NoScan
    /\ lay = NoLay
    /\ conf = NoConf
    /\ ev = NoEv
    /\ query = NoQuery
    /\ \E dir \in Dirs : cond = [pc |-> "ready", dir |-> dir]

\* path_meets_workspace_conditions is called with one or two conditions
MeetsConditions(conditions) ==
    /\ cond.pc = "ready"
    /\ cond' = [pc |-> "conditions", dir |-> cond.dir,
                conditions |-> conditions,
                each |-> [i \in 1..Len(conditions) |->
                             meets_condition(conditions[i], cond.dir)],
                met |-> path_meets_workspace_conditions(cond.dir, conditions)]
    /\ UNCHANGED <<engine, scan, lay, conf, ev, query, tmuxVars, pickerVars>>

\* get_workspace_type_for_path is called with a list of definitions
GetWorkspaceType(workspace_definitions) ==
    /\ cond.pc = "ready"
    /\ cond' = [pc |-> "type", dir |-> cond.dir,
                workspace_definitions |-> workspace_definitions,
                type |-> get_workspace_type_for_path(cond.dir,
                                                     workspace_definitions)]
    /\ UNCHANGED <<engine, scan, lay, conf, ev, query, tmuxVars, pickerVars>>

\* a list the configuration file does not set (None)
Absent == <<<<"none">>>>

\* the layout names of the configuration; NoLayout: default_layout is unset
NoLayout == <<"nolayout">>

WorkspaceDefinitionConfig(name, has_any_file, has_all_files, missing_any_file, missing_all_files, default_layout) ==
    [name |-> name, has_any_file |-> has_any_file,
     has_all_files |-> has_all_files, missing_any_file |-> missing_any_file,
     missing_all_files |-> missing_all_files, default_layout |-> default_layout]

\* impl From<WorkspaceDefinitionConfig> for WorkspaceDefinition: a condition
\* per list that is set and not empty, in this order, the one made of
\* has_all_files being a HasAnyFileCondition; NullCondition when there is
\* none
WorkspaceDefinitionFrom(config) ==
    LET Set(files) == files # Absent /\ files # <<>>
        conditions ==
            (IF Set(config.has_any_file)
             THEN <<Condition("HasAnyFile", config.has_any_file)>> ELSE <<>>)
            \o (IF Set(config.has_all_files)
                THEN <<Condition("HasAnyFile", config.has_all_files)>> ELSE <<>>)
            \o (IF Set(config.missing_any_file)
                THEN <<Condition("MissingAnyFile", config.missing_any_file)>>
                ELSE <<>>)
            \o (IF Set(config.missing_all_files)
                THEN <<Condition("MissingAllFiles", config.missing_all_files)>>
                ELSE <<>>)
    IN  [name |-> config.name,
         conditions |-> IF conditions = <<>> THEN <<Condition("Null", <<>>)>>
                        ELSE conditions,
         default_layout |-> config.default_layout]

\* the lists has_any_file and has_all_files are set to in the model
ConfigFileLists ==
    {Absent} \cup UNION {[1..n -> {<<"g">>, <<"s">>}] : n \in 0..MaxFiles}

\* the definitions of the configuration file in the model
DefinitionConfigs ==
    {WorkspaceDefinitionConfig(<<"w">>, any, all, missing_any, missing_all,
                               NoLayout) :
        any \in ConfigFileLists, all \in ConfigFileLists,
        missing_any \in {Absent, <<>>, <<<<"s">>>>},
        missing_all \in {Absent, <<>>, <<<<"s">>>>}}

\* a definition of the configuration file is converted and its conditions
\* are evaluated on the directory
FromConfig(config) ==
    /\ cond.pc = "ready"
    /\ LET definition == WorkspaceDefinitionFrom(config)
       IN  cond' = [pc |-> "from", dir |-> cond.dir, config |-> config,
                    definition |-> definition,
                    met |-> path_meets_workspace_conditions(
                                cond.dir, definition.conditions)]
    /\ UNCHANGED <<engine, scan, lay, conf, ev, query, tmuxVars, pickerVars>>

NextConditions ==
    \/ \E c1, c2 \in Conditions : MeetsConditions(<<c1, c2>>)
    \/ \E c \in Conditions : MeetsConditions(<<c>>)
    \/ \E L \in DefinitionLists : GetWorkspaceType(L)
    \/ \E config \in DefinitionConfigs : FromConfig(config)

SpecConditions == InitConditions /\ [][NextConditions]_vars

(***************************************************************************)
(* Part IV: the scanner (matches.rs, and the thread of                     *)
(* handle_workspace_selection).  The walker is jwalk's WalkDir as the code  *)
(* configures it: it yields the root at depth 0 and the entries of every    *)
(* directory above max_depth, whatever the directory is called; its worker  *)
(* threads list directories and hand entries to for_each in any order.     *)
(***************************************************************************)
\* the deepest max_search_depth of the model
MaxSearchDepth == 2
\* the search paths a configuration lists at most
MaxSearchPaths == 2

\* the directories configured as search paths
SearchRoots == {<<"/", "r">>, <<"/", "r", "/", "a">>, <<"/", "r", "/", "n">>}

SearchPathLists == UNION {[1..n -> SearchRoots] : n \in 1..MaxSearchPaths}

\* the names exclude_path_components lists
ExcludeNames == {<<"n">>, <<"r">>}

\* the workspace definitions of the scanned configuration
ScanDefinitions == <<PyDefinition, GitDefinition>>

\* Path::components: the root directory and the names after it
components(path) == <<<<"/">>>> \o Tail(Split(path))

\* the path lies beneath the directory
Beneath(path, dir) == StartsWith(path, dir \o <<"/">>)

\* std::fs::read_dir: the paths of the entries of a directory
read_dir(dir) ==
    {d \in Dirs : Beneath(d, dir) /\ Len(components(d)) = Len(components(dir)) + 1}
    \cup {join(dir, f) : f \in FilesOf(dir)}

\* the filter of find_workspaces_in_dir looking at the last component only
excluded_by_file_name(path, exclude_path_components) ==
    components(path)[Len(components(path))] \in exclude_path_components

\* the filter of find_workspaces_in_dir: some component of the path is one
\* of exclude_path_components
excluded(path, exclude_path_components) ==
    \E i \in 1..Len(components(path)) :
        components(path)[i] \in exclude_path_components

\* the walker listing the directories at max_depth too
descends_at_max_depth(depth, max_search_depth) == depth <= max_search_depth

\* WalkDir::max_depth: the entries of a directory at `depth` are listed
descends(depth, max_search_depth) == depth < max_search_depth

\* the for_each body without its break: a push per matching definition
pushes_without_break(path, workspace_definitions) ==
    LET n[i \in 1..(Len(workspace_definitions) + 1)] ==
            IF i > Len(workspace_definitions) THEN 0
            ELSE IF path_meets_workspace_conditions(
                        path, workspace_definitions[i].conditions)
            THEN 1 + n[i + 1]
            ELSE n[i + 1]
    IN  n[1]

\* the for_each body: the number of times it pushes the path, one push at
\* the first definition the path meets
pushes(path, workspace_definitions) ==
    LET n[i \in 1..(Len(workspace_definitions) + 1)] ==
            IF i > Len(workspace_definitions) THEN 0
            ELSE IF path_meets_workspace_conditions(
                        path, workspace_definitions[i].conditions)
            THEN 1
            ELSE n[i + 1]
    IN  n[1]

Entry(path, depth, root) == [path |-> path, depth |-> depth, root |-> root]

\* the thread of handle_workspace_selection: find_workspaces_in_dir for the
\* next search path starts its walk, or the thread ends
find_workspaces_in_dir ==
    /\ scan.pc = "for"
    /\ IF scan.root > Len(scan.search_paths)
       THEN scan' = [scan EXCEPT !.pc = "done"]
       ELSE LET e == Entry(scan.search_paths[scan.root], 0, scan.root)
            IN  scan' = [scan EXCEPT
                           !.pc = "walk",
                           !.yielded = {e},
                           !.unread = IF descends(0, scan.max_search_depth)
                                      THEN {e} ELSE {}]
    /\ UNCHANGED <<engine, cond, lay, conf, ev, query, tmuxVars, pickerVars>>

\* a worker of the walker lists a directory: its entries are yielded
ReadDir(e) ==
    /\ scan.pc = "walk"
    /\ e \in scan.unread
    /\ LET entries == {Entry(p, e.depth + 1, e.root) : p \in read_dir(e.path)}
       IN  scan' = [scan EXCEPT
                      !.unread = (@ \ {e}) \cup
                                 {c \in entries :
                                     /\ c.path \in Dirs
                                     /\ descends(c.depth, scan.max_search_depth)},
                      !.yielded = @ \cup entries,
                      !.listed = @ \cup {e}]
    /\ UNCHANGED <<engine, cond, lay, conf, ev, query, tmuxVars, pickerVars>>

\* filter and for_each on one entry the walker has yielded
ForEach(e) ==
    /\ scan.pc = "walk"
    /\ e \in scan.yielded
    /\ LET keep == /\ e.path \in Dirs
                   /\ ~excluded(e.path, scan.exclude_path_components)
           n == IF keep THEN pushes(e.path, ScanDefinitions) ELSE 0
           had == Cardinality({r \in scan.pushed : r.path = e.path})
       IN  scan' = [scan EXCEPT
                      !.yielded = @ \ {e},
                      !.visited = @ \cup {e},
                      !.pushed = @ \cup
                          {[path |-> e.path, root |-> e.root, nth |-> had + i] :
                              i \in 1..n}]
    /\ UNCHANGED <<engine, cond, lay, conf, ev, query, tmuxVars, pickerVars>>

\* for_each has handled every entry: find_workspaces_in_dir returns
WalkEnd ==
    /\ scan.pc = "walk"
    /\ scan.unread = {} /\ scan.yielded = {}
    /\ scan' = [scan EXCEPT !.pc = "for", !.root = @ + 1]
    /\ UNCHANGED <<engine, cond, lay, conf, ev, query, tmuxVars, pickerVars>>

InitScan ==
    /\ InitTmuxVars
    /\ InitPickerVars
    /\ engine = NoEngine
    /\ cond = NoCond
    /\ lay = NoLay
    /\ conf = NoConf
    /\ ev = NoEv
    /\ query = NoQuery
    /\ \E search_paths \in SearchPathLists,
          max_search_depth \in 0..MaxSearchDepth,
          exclude_path_components \in SUBSET ExcludeNames :
          scan = [pc |-> "for", search_paths |-> search_paths,
                  max_search_depth |-> max_search_depth,
                  exclude_path_components |-> exclude_path_components,
                  root |-> 1, unread |-> {}, yielded |-> {}, listed |-> {},
                  visited |-> {}, pushed |-> {}]

NextScan ==
    \/ find_workspaces_in_dir
    \/ \E e \in scan.unread : ReadDir(e)
    \/ \E e \in scan.yielded : ForEach(e)
    \/ WalkEnd

SpecScan == InitScan /\ [][NextScan]_vars

(***************************************************************************)
(* Part V: layouts (layout.rs) and the commands of a new session           *)
(* (get_workspace_commands, find_config_file).  The recursion of           *)
(* get_commands_from_layout_name is run call by call on a stack of         *)
(* frames, each holding the layout, the place in its inherits list and     *)
(* the local `commands`.                                                   *)
(***************************************************************************)
\* the names an inherits list has at most
MaxInherits == 2
\* the calls of get_commands_from_layout_name the stack has room for
MaxStack == 4

LayoutDefinition(name, inherits, commands) ==
    [name |-> name, inherits |-> inherits, commands |-> commands]

\* get_layout_by_name found nothing
NoLayoutDefinition == LayoutDefinition(NoLayout, Absent, Unset)

\* get_layout_by_name: the first layout of the list with the name
get_layout_by_name(name, layouts) ==
    IF \E i \in 1..Len(layouts) : layouts[i].name = name
    THEN layouts[CHOOSE i \in 1..Len(layouts) :
                     /\ layouts[i].name = name
                     /\ \A j \in 1..(i - 1) : layouts[j].name # name]
    ELSE NoLayoutDefinition

\* get_layout_names
get_layout_names(layouts) == [i \in 1..Len(layouts) |-> layouts[i].name]

\* `if let Some(inherits_list) = &layout.inherits`
InheritsOf(layout) == IF layout.inherits = Absent THEN <<>> ELSE layout.inherits

\* `if let Some(layout_commands) = &layout.commands`
CommandsOf(layout) == IF layout.commands = Unset THEN <<>> ELSE layout.commands

\* get_commands_from_layout has been entered for the layout
Frame(layout) == [layout |-> layout, next |-> 1, commands |-> <<>>]

\* a call returns `commands`: to get_workspace_commands, or to the caller's
\* commands.extend(..) and the next turn of its loop
Returned(l, commands) ==
    IF l.stack = <<>>
    THEN [l EXCEPT !.pc = "returned", !.result = commands]
    ELSE [l EXCEPT !.stack[Len(l.stack)] =
             [@ EXCEPT !.commands = @ \o commands, !.next = @ + 1]]

\* get_commands_from_layout returning nothing for a layout whose call is
\* already under way
Entered_unless_under_way(l, layout) ==
    IF \E d \in 1..Len(l.stack) : l.stack[d].layout.name = layout.name
    THEN Returned(l, <<>>)
    ELSE IF Len(l.stack) >= MaxStack
    THEN [l EXCEPT !.pc = "overflow"]
    ELSE [l EXCEPT !.pc = "call", !.stack = Append(@, Frame(layout))]

\* get_commands_from_layout(layout, layouts) is entered, if the stack has
\* room for it
Entered(l, layout) ==
    IF Len(l.stack) >= MaxStack
    THEN [l EXCEPT !.pc = "overflow"]
    ELSE [l EXCEPT !.pc = "call", !.stack = Append(@, Frame(layout))]

\* get_commands_from_layout_name(layout_name, layouts)
get_commands_from_layout_name(l, layout_name) ==
    LET layout == get_layout_by_name(layout_name, l.layouts)
    IN  IF layout = NoLayoutDefinition THEN Returned(l, <<>>)
        ELSE Entered(l, layout)

Top == lay.stack[Len(lay.stack)]

\* get_commands_from_layout: a turn of the loop over inherits_list
Inherit ==
    /\ lay.pc = "call"
    /\ Top.next <= Len(InheritsOf(Top.layout))
    /\ lay' = get_commands_from_layout_name(lay, InheritsOf(Top.layout)[Top.next])
    /\ UNCHANGED <<engine, scan, cond, conf, ev, query, tmuxVars, pickerVars>>

\* the layout's own commands put before the inherited ones
OwnCommands_first(frame) == CommandsOf(frame.layout) \o frame.commands

\* get_commands_from_layout after the loop: the own commands are added
OwnCommands(frame) == frame.commands \o CommandsOf(frame.layout)

\* get_commands_from_layout returns
ReturnCommands ==
    /\ lay.pc = "call"
    /\ Top.next > Len(InheritsOf(Top.layout))
    /\ lay' = Returned([lay EXCEPT !.stack = SubSeq(@, 1, Len(@) - 1)],
                       OwnCommands(Top))
    /\ UNCHANGED <<engine, scan, cond, conf, ev, query, tmuxVars, pickerVars>>

(***************************************************************************)
(* The layouts' specification: a layout of a configuration is flattened.   *)
(***************************************************************************)
InheritLists(names) == UNION {[1..n -> names] : n \in 0..MaxInherits}

\* the layouts of the configuration file in the model: b, c and t, and a
\* second layout named b; g names no layout
LayoutLists ==
    {<<LayoutDefinition(<<"b">>, ib, <<"x">>),
       LayoutDefinition(<<"c">>, ic, cc),
       LayoutDefinition(<<"t">>, it, <<"z">>),
       LayoutDefinition(<<"b">>, Absent, <<"w">>)>> :
        ib \in {Absent, <<<<"c">>>>},
        ic \in {Absent} \cup InheritLists({<<"b">>, <<"g">>}),
        cc \in {Unset, <<"y">>},
        it \in {Absent} \cup InheritLists({<<"b">>, <<"c">>})}

LayoutNames == {<<"b">>, <<"c">>, <<"t">>, <<"g">>}

InitLayout ==
    /\ InitTmuxVars
    /\ InitPickerVars
    /\ engine = NoEngine
    /\ scan = NoScan
    /\ cond = NoCond
    /\ conf = NoConf
    /\ ev = NoEv
    /\ query = NoQuery
    /\ \E layouts \in LayoutLists :
          lay = [pc |-> "ready", layouts |-> layouts, name |-> NoLayout,
                 stack |-> <<>>, result |-> <<>>]

\* get_commands_from_layout_name is called with a layout name
FlattenLayout(layout_name) ==
    /\ lay.pc = "ready"
    /\ lay' = get_commands_from_layout_name([lay EXCEPT !.name = layout_name],
                                            layout_name)
    /\ UNCHANGED <<engine, scan, cond, conf, ev, query, tmuxVars, pickerVars>>

NextLayout ==
    \/ \E layout_name \in LayoutNames : FlattenLayout(layout_name)
    \/ Inherit
    \/ ReturnCommands

SpecLayout == InitLayout /\ [][NextLayout]_vars

\* the call runs on as long as it has a step to take
FairSpecLayout == SpecLayout /\ WF_vars(NextLayout)

(***************************************************************************)
(* The commands' specification: the configuration is loaded, and           *)
(* open_workspace, having created the session, resolves its commands.      *)
(***************************************************************************)
\* the layouts of the configuration: b with the command x, and c, which
\* inherits from b and adds y
CommandLayouts ==
    <<LayoutDefinition(<<"b">>, Absent, <<"x">>),
      LayoutDefinition(<<"c">>, <<<<"b">>>>, <<"y">>)>>

\* a workspace definition as get_workspace_commands reads it
NamedDefinition(name, default_layout) ==
    [name |-> name, default_layout |-> default_layout]

\* the workspace_definitions of the configuration: two definitions, which
\* may bear the same name; q names no layout
CommandDefinitionLists ==
    {<<NamedDefinition(<<"p", "y">>, l1), NamedDefinition(n2, l2)>> :
        l1 \in {NoLayout, <<"b">>, <<"q">>},
        n2 \in {<<"p", "y">>, <<"g", "i", "t">>},
        l2 \in {NoLayout, <<"c">>}}

\* what a directory holds for TwmLocal::load: no .twm.yaml, one that does
\* not parse, or one with a layout
NoLocal == LayoutDefinition(<<"nolocal">>, Absent, Unset)
Unparsable == LayoutDefinition(<<"unparsable">>, Absent, Unset)
LocalLayouts ==
    {LayoutDefinition(<<"l">>, <<<<"b">>>>, <<"v">>),
     LayoutDefinition(<<"m">>, Absent, <<"u">>)}

\* the workspace directory and its parent
LocalChains ==
    {<<here, parent>> :
        here \in {NoLocal, Unparsable} \cup LocalLayouts,
        parent \in {NoLocal} \cup LocalLayouts}

\* find_config_file: the layout of the first directory, from the workspace
\* upwards, that has a .twm.yaml; Unparsable for the Err of TwmLocal::load
RECURSIVE find_config_file(_)
find_config_file(chain) ==
    IF chain = <<>> THEN NoLocal
    ELSE IF Head(chain) # NoLocal THEN Head(chain)
    ELSE find_config_file(Tail(chain))

\* get_layout_selection: the name picked, or NoLayout when the picker was
\* left without a selection
LayoutSelections(layouts) ==
    {get_layout_names(layouts)[i] : i \in 1..Len(layouts)} \cup {NoLayout}

\* get_workspace_commands, `match workspace_type`: the default_layout of the
\* first definition bearing the name of the type
default_layout_of(workspace_type, workspace_definitions) ==
    IF workspace_type = NoType
       \/ \A i \in 1..Len(workspace_definitions) :
              workspace_definitions[i].name # workspace_type
    THEN NoLayout
    ELSE workspace_definitions[
             CHOOSE i \in 1..Len(workspace_definitions) :
                 /\ workspace_definitions[i].name = workspace_type
                 /\ \A j \in 1..(i - 1) :
                       workspace_definitions[j].name # workspace_type
         ].default_layout

InitCommands ==
    /\ InitTmuxVars
    /\ InitPickerVars
    /\ engine = NoEngine
    /\ scan = NoScan
    /\ cond = NoCond
    /\ conf = NoConf
    /\ ev = NoEv
    /\ query = NoQuery
    /\ \E workspace_definitions \in CommandDefinitionLists :
          lay = [pc |-> "raw", layouts |-> CommandLayouts,
                 workspace_definitions |-> workspace_definitions,
                 name |-> NoLayout, stack |-> <<>>, result |-> <<>>]

\* TwmGlobal::load: the file is read and parsed, and TwmGlobal::from
\* converts what was parsed
Load(parsed) ==
    /\ lay.pc = "raw"
    /\ lay' = [lay EXCEPT !.pc = IF parsed THEN "loaded" ELSE "load_err"]
    /\ UNCHANGED <<engine, scan, cond, conf, ev, query, tmuxVars, pickerVars>>

\* open_workspace after create_tmux_session: find_config_file,
\* get_layout_selection with -l, and get_workspace_commands down to its
\* call of get_commands_from_layout(_name); matched is the definition whose
\* conditions the path met first (0: none), workspace_type its name
GetWorkspaceCommands(matched, layout, selection, chain) ==
    /\ lay.pc = "loaded"
    /\ LET workspace_type ==
               IF matched = 0 THEN NoType
               ELSE lay.workspace_definitions[matched].name
           local_config == find_config_file(chain)
           default_layout ==
               default_layout_of(workspace_type, lay.workspace_definitions)
           l == [lay EXCEPT !.pc = "call"]
              @@ [matched |-> matched, layout |-> layout,
                  selection |-> selection, chain |-> chain]
       IN  lay' =
             IF local_config = Unparsable \/ (layout /\ selection = NoLayout)
             THEN [l EXCEPT !.pc = "err"]
             ELSE IF layout
             THEN get_commands_from_layout_name(
                      [l EXCEPT !.name = selection], selection)
             ELSE IF local_config # NoLocal
             THEN Entered([l EXCEPT !.name = local_config.name], local_config)
             ELSE IF default_layout # NoLayout
             THEN get_commands_from_layout_name(
                      [l EXCEPT !.name = default_layout], default_layout)
             ELSE [l EXCEPT !.pc = "none"]
    /\ UNCHANGED <<engine, scan, cond, conf, ev, query, tmuxVars, pickerVars>>

NextCommands ==
    \/ \E parsed \in BOOLEAN : Load(parsed)
    \/ \E matched \in 0..2, layout \in BOOLEAN,
          selection \in LayoutSelections(CommandLayouts),
          chain \in LocalChains :
          GetWorkspaceCommands(matched, layout, selection, chain)
    \/ Inherit
    \/ ReturnCommands

SpecCommands == InitCommands /\ [][NextCommands]_vars

(***************************************************************************)
(* Part VI: SessionName::new and TwmGlobal::get_config_path, called with   *)
(* the path, the configuration and the environment of the process.         *)
(***************************************************************************)
\* the largest session_name_path_components of the model
MaxPathComponents == 4

\* the workspace paths names are made of
NamePaths ==
    {<<"/", "p", "/", "f", "/", "b">>,
     <<"/", "p", "/", "a", ".", "b">>,
     <<"/", "p", "/", "a", ":", "b">>,
     <<"/", "p", "/", "f", ".", "g", "/", "b">>,
     <<"/", "b">>}

\* the values of TWM_CONFIG_FILE: unset, the empty string, or a path
ConfigFileValues == {Unset, <<>>, <<"/", "c">>, <<"/", "d">>}

\* the path xdg_dirs.get_config_file("twm.yaml") gives
XdgConfigPath == <<"x", "d", "g">>

\* Ok(None) and Err of get_config_path
NoPath == <<"nopath">>
ErrPath == <<"err">>

\* get_config_path returning TWM_CONFIG_FILE only when that file exists
get_config_path_when_present(twm_config_file, xdg, files) ==
    IF twm_config_file \in {Unset, <<>>} \/ twm_config_file \notin files
    THEN CASE xdg = "error" -> ErrPath
           [] xdg = "exists" -> XdgConfigPath
           [] OTHER -> NoPath
    ELSE twm_config_file

\* TwmGlobal::get_config_path: xdg says whether the XDG directories could
\* be loaded and whether the file is in them, files are the files that
\* exist
get_config_path(twm_config_file, xdg, files) ==
    IF twm_config_file = Unset \/ twm_config_file = <<>>
    THEN CASE xdg = "error" -> ErrPath
           [] xdg = "exists" -> XdgConfigPath
           [] OTHER -> NoPath
    ELSE twm_config_file

InitConfig ==
    /\ InitTmuxVars
    /\ InitPickerVars
    /\ engine = NoEngine
    /\ scan = NoScan
    /\ cond = NoCond
    /\ lay = NoLay
    /\ ev = NoEv
    /\ query = NoQuery
    /\ \E path \in NamePaths, path_components \in 0..MaxPathComponents,
          twm_config_file \in ConfigFileValues,
          xdg \in {"exists", "missing", "error"},
          files \in SUBSET {<<"/", "c">>} :
          conf = [pc |-> "ready", path |-> path,
                  path_components |-> path_components,
                  twm_config_file |-> twm_config_file, xdg |-> xdg,
                  files |-> files, result |-> NoName]

\* SessionName::new(path, path_components) is called
NewSessionName ==
    /\ conf.pc = "ready"
    /\ conf' = [conf EXCEPT
                  !.pc = "name",
                  !.result = SessionNameNew(conf.path, conf.path_components)]
    /\ UNCHANGED <<engine, scan, cond, lay, ev, query, tmuxVars, pickerVars>>

\* TwmGlobal::get_config_path() is called
GetConfigPath ==
    /\ conf.pc = "ready"
    /\ conf' = [conf EXCEPT
                  !.pc = "config_path",
                  !.result = get_config_path(conf.twm_config_file, conf.xdg,
                                             conf.files)]
    /\ UNCHANGED <<engine, scan, cond, lay, ev, query, tmuxVars, pickerVars>>

NextConfig ==
    \/ NewSessionName
    \/ GetConfigPath

SpecConfig == InitConfig /\ [][NextConfig]_vars

(***************************************************************************)
(* Part VII: the event threads (ui/event.rs) and the pickers that run one  *)
(* after the other in a process.  cli::parse calls Tui::start, which       *)
(* spawns an event thread; every Picker::get_selection calls               *)
(* EventHandler::new, which spawns another.  No event thread ever ends.    *)
(* What crossterm's poll and read do when several threads call them is     *)
(* the library's: a key press that waits in the terminal is read by        *)
(* whichever thread reads first.  The terminal calls of get_selection      *)
(* succeed here; their failures are in Part II.                            *)
(***************************************************************************)
\* the pickers one process runs at most: the workspace picker and the
\* layout picker of -l
MaxPickers == 2
\* the key presses the user makes in the model
MaxKeys == 2
\* the events the model lets wait in the channel (the channel of the code
\* has no limit)
MaxChannel == 2

\* the event thread of Tui::start
StartThread == 0

\* the key presses of the model
EventKeys ==
    {Key("Char", "a", NoMods), Key("Char", "b", NoMods),
     Key("Left", "", NoMods), Key("Enter", "", NoMods)}

\* the workspaces the scanner finds, and the names of the layouts
EventCandidates == {<<"a">>, <<"b">>}
LayoutPickerItems == <<<<"b">>, <<"c">>>>

\* the n-th key press of the user
Press(key, n) == [key |-> key, n |-> n]

\* Event::Tick in the channel
TickSent == Press(TickEvent, 0)

\* get_selection is in its loop
PickerRunning == gs.pc \in {"draw", "next"}

\* the thread is the one the running picker's EventHandler has spawned
Feeds(t) == PickerRunning /\ t = ev.run

\* Picker::new
NewPicker ==
    [filter |-> <<>>, cursor_pos |-> 0, selection |-> NoRow,
     should_exit |-> FALSE]

\* the Nucleo of Picker::new, with the list pushed
NewMatcher(list) ==
    [items |-> list, pattern |-> <<>>, status |-> "Unchanged",
     pending |-> NoRun, worker_count |-> 0,
     snapshot |-> [item_count |-> 0, matched |-> <<>>]]

\* Picker::get_selection down to the loop: EventHandler::new spawns the
\* picker's event thread and makes its channel, Tui::enter
GetSelectionSpawn ==
    /\ ev.pc = "on"
    /\ gs.pc = "start"
    /\ ev.run < MaxPickers
    /\ ev' = [ev EXCEPT !.run = @ + 1,
                        !.threads[ev.run + 1] = "poll",
                        !.channel = <<>>, !.read = <<>>, !.applied = <<>>]
    /\ tui' = enter(tui, "none")
    /\ gs' = [gs EXCEPT !.pc = "draw", !.entered = TRUE]
    /\ UNCHANGED <<picker, matcher, unscanned, tmuxVars, engine, scan, cond,
                   lay, conf, query>>

\* the user presses a key while a picker is on the screen
PressKey(key) ==
    /\ ev.pc = "on"
    /\ PickerRunning
    /\ ev.pressed < MaxKeys
    /\ ev' = [ev EXCEPT !.pressed = @ + 1,
                        !.input = Append(@, Press(key, ev.pressed + 1))]
    /\ UNCHANGED <<pickerVars, tmuxVars, engine, scan, cond, lay, conf, query>>

\* the event thread: event::poll(timeout) is true when a key press waits,
\* false when the timeout has passed
Poll(t) ==
    /\ ev.pc = "on"
    /\ ev.threads[t] = "poll"
    /\ ev' = [ev EXCEPT !.threads[t] = IF ev.input # <<>> THEN "read"
                                       ELSE "tick"]
    /\ UNCHANGED <<pickerVars, tmuxVars, engine, scan, cond, lay, conf, query>>

\* the event thread: event::read() takes the key press that waits and
\* sender.send(Event::Key(e)) puts it into the thread's channel, which is
\* the running picker's or one that nobody receives from; `elapsed` says
\* whether last_tick.elapsed() >= tick_rate afterwards
Read(t, elapsed) ==
    /\ ev.pc = "on"
    /\ ev.threads[t] = "read"
    /\ ev.input # <<>>
    /\ Feeds(t) => Len(ev.channel) < MaxChannel
    /\ LET press == Head(ev.input)
       IN  ev' = [ev EXCEPT
                    !.threads[t] = IF elapsed THEN "tick" ELSE "poll",
                    !.input = Tail(@),
                    !.channel = IF Feeds(t) THEN Append(@, press) ELSE @,
                    !.read = IF Feeds(t) THEN Append(@, press) ELSE @,
                    !.taken_by = IF PickerRunning /\ ~Feeds(t)
                                 THEN @ \cup {t} ELSE @]
    /\ UNCHANGED <<pickerVars, tmuxVars, engine, scan, cond, lay, conf, query>>

\* the event thread going round its loop without sending Event::Tick
SendTick_never(t) ==
    /\ ev.pc = "on"
    /\ ev.threads[t] = "tick"
    /\ ev' = [ev EXCEPT !.threads[t] = "poll"]
    /\ UNCHANGED <<pickerVars, tmuxVars, engine, scan, cond, lay, conf, query>>

\* the event thread: the tick rate has elapsed, sender.send(Event::Tick)
SendTick(t) ==
    /\ ev.pc = "on"
    /\ ev.threads[t] = "tick"
    /\ Feeds(t) => Len(ev.channel) < MaxChannel
    /\ ev' = [ev EXCEPT
                !.threads[t] = "poll",
                !.channel = IF Feeds(t) THEN Append(@, TickSent) ELSE @]
    /\ UNCHANGED <<pickerVars, tmuxVars, engine, scan, cond, lay, conf, query>>

\* tui.events.next() handing out the event sent last
Recv_newest_first ==
    /\ ev.pc = "on"
    /\ gs.pc = "next"
    /\ ev.channel # <<>>
    /\ LET press == ev.channel[Len(ev.channel)]
           u == IF press = TickSent THEN Only(picker, matcher)
                ELSE update(picker, matcher, press.key)
       IN  /\ picker' = u.picker
           /\ matcher' = u.matcher
           /\ AfterEvent(u.picker, u.selection, press.key)
           /\ ev' = [ev EXCEPT
                       !.channel = IF u.picker.should_exit THEN <<>>
                                   ELSE SubSeq(@, 1, Len(@) - 1),
                       !.applied = IF press = TickSent THEN @
                                   ELSE Append(@, press)]
    /\ UNCHANGED <<unscanned, tmuxVars, engine, scan, cond, lay, conf, query>>

\* tui.events.next(): Receiver::recv hands out the event that has waited
\* longest; get_selection matches on it, Picker::update for a key.  When
\* get_selection returns, the receiver is dropped with what it holds
Recv ==
    /\ ev.pc = "on"
    /\ gs.pc = "next"
    /\ ev.channel # <<>>
    /\ LET press == Head(ev.channel)
           u == IF press = TickSent THEN Only(picker, matcher)
                ELSE update(picker, matcher, press.key)
       IN  /\ picker' = u.picker
           /\ matcher' = u.matcher
           /\ AfterEvent(u.picker, u.selection, press.key)
           /\ ev' = [ev EXCEPT
                       !.channel = IF u.picker.should_exit THEN <<>>
                                   ELSE Tail(@),
                       !.applied = IF press = TickSent THEN @
                                   ELSE Append(@, press)]
    /\ UNCHANGED <<unscanned, tmuxVars, engine, scan, cond, lay, conf, query>>

\* open_workspace with -l after the workspace picker has returned a
\* selection: get_layout_selection makes the picker of the layout names
GetLayoutSelection ==
    /\ ev.pc = "on"
    /\ gs.pc = "returned" /\ gs.result = "ok"
    /\ gs.selection.kind # "None"
    /\ ev.run < MaxPickers
    /\ picker' = NewPicker
    /\ matcher' = NewMatcher(LayoutPickerItems)
    /\ unscanned' = {}
    /\ gs' = [gs EXCEPT !.pc = "start", !.result = "none",
                        !.selection = PickerSelectionNone, !.last = "None"]
    /\ UNCHANGED <<tui, tmuxVars, restVars>>

InitEvents ==
    /\ InitTmuxVars
    /\ picker = NewPicker
    /\ matcher = NewMatcher(<<>>)
    /\ unscanned = EventCandidates
    /\ InitTerminal
    /\ engine = NoEngine
    /\ scan = NoScan
    /\ cond = NoCond
    /\ lay = NoLay
    /\ conf = NoConf
    /\ query = NoQuery
    /\ ev = [pc |-> "on", run |-> 0,
             threads |-> [t \in 0..MaxPickers |->
                             IF t = StartThread THEN "poll" ELSE "none"],
             channel |-> <<>>, input |-> <<>>, pressed |-> 0,
             read |-> <<>>, applied |-> <<>>, taken_by |-> {}]

NextEvents ==
    \/ GetSelectionSpawn
    \/ \E key \in EventKeys : PressKey(key)
    \/ \E t \in 0..MaxPickers : Poll(t)
    \/ \E t \in 0..MaxPickers, elapsed \in BOOLEAN : Read(t, elapsed)
    \/ \E t \in 0..MaxPickers : SendTick(t)
    \/ Draw
    \/ Recv
    \/ GetLayoutSelection
    \/ \E c \in EventCandidates : InjectorPush(c)

SpecEvents == InitEvents /\ [][NextEvents]_vars

(***************************************************************************)
(* The specification of a picker nobody types into: the event threads and  *)
(* the render loop are scheduled fairly, and a run of the matcher's worker *)
(* that is outstanding ends, so that a later tick takes its result.        *)
(***************************************************************************)
\* Picker::render finds the outstanding run of the worker ended
DrawResult ==
    /\ Draw
    /\ matcher.pending # NoRun
    /\ matcher'.snapshot.item_count = matcher.pending.count

NextTicks ==
    \/ GetSelectionSpawn
    \/ \E t \in 0..MaxPickers : Poll(t)
    \/ \E t \in 0..MaxPickers : SendTick(t)
    \/ Draw
    \/ Recv
    \/ \E c \in EventCandidates : InjectorPush(c)

FairSpecTicks ==
    /\ InitEvents
    /\ [][NextTicks]_vars
    /\ WF_vars(GetSelectionSpawn)
    /\ \A t \in 0..MaxPickers : WF_vars(Poll(t)) /\ WF_vars(SendTick(t))
    /\ WF_vars(Draw)
    /\ SF_vars(DrawResult)
    /\ WF_vars(Recv)

(***************************************************************************)
(* Part VIII: the picker's query as the String it is (ui/picker.rs).  A    *)
(* String is a sequence of bytes; a character takes one to four of them,   *)
(* and String::insert and String::remove panic at an index that is not     *)
(* the first byte of a character (or the end).  cursor_pos counts bytes.    *)
(***************************************************************************)
\* the bytes the query may grow to in the model
MaxQueryBytes == 5

\* the characters typed: a and b of one byte, e-acute of two, the euro sign
\* of three
QueryCharacters == {"a", "b", "e-acute", "euro"}

\* char::len_utf8
len_utf8(c) ==
    CASE c = "e-acute" -> 2
      [] c = "euro" -> 3
      [] OTHER -> 1

\* the bytes of the character: k is the place of the byte in it
Utf8(c) == [k \in 1..len_utf8(c) |-> [ch |-> c, k |-> k]]

\* str::is_char_boundary
is_char_boundary(s, idx) ==
    \/ idx = 0
    \/ idx = Len(s)
    \/ idx < Len(s) /\ s[idx + 1].k = 1

\* String::insert(idx, c) does not panic
CanInsert(s, idx) == idx <= Len(s) /\ is_char_boundary(s, idx)

\* String::insert(idx, c)
StringInsert(s, idx, c) ==
    SubSeq(s, 1, idx) \o Utf8(c) \o SubSeq(s, idx + 1, Len(s))

\* String::remove(idx) does not panic: a character starts at idx
CanRemove(s, idx) == idx < Len(s) /\ is_char_boundary(s, idx)

\* String::remove(idx): the character at idx is taken out
StringRemove(s, idx) ==
    SubSeq(s, 1, idx) \o SubSeq(s, idx + len_utf8(s[idx + 1].ch) + 1, Len(s))

\* the thread panics in `call`
Panicked(call) == [query EXCEPT !.pc = "panicked", !.call = call]

\* Picker::move_cursor_left
MoveCursorLeft ==
    /\ query.pc = "editing"
    /\ query' = IF query.cursor_pos > 0
                THEN [query EXCEPT !.cursor_pos = @ - 1] ELSE query
    /\ UNCHANGED <<engine, scan, cond, lay, conf, ev, tmuxVars, pickerVars>>

\* Picker::move_cursor_right
MoveCursorRight ==
    /\ query.pc = "editing"
    /\ query' = IF query.cursor_pos < Len(query.filter)
                THEN [query EXCEPT !.cursor_pos = @ + 1] ELSE query
    /\ UNCHANGED <<engine, scan, cond, lay, conf, ev, tmuxVars, pickerVars>>

\* Picker::update_filter(c)
UpdateFilter(c) ==
    /\ query.pc = "editing"
    /\ Len(query.filter) + len_utf8(c) <= MaxQueryBytes
    /\ query' = IF CanInsert(query.filter, query.cursor_pos)
                THEN [query EXCEPT
                        !.filter = StringInsert(@, query.cursor_pos, c),
                        !.cursor_pos = @ + 1]
                ELSE Panicked("insert")
    /\ UNCHANGED <<engine, scan, cond, lay, conf, ev, tmuxVars, pickerVars>>

\* Picker::backspace
Backspace ==
    /\ query.pc = "editing"
    /\ query' = IF query.cursor_pos = 0 THEN query
                ELSE IF CanRemove(query.filter, query.cursor_pos - 1)
                THEN [query EXCEPT
                        !.filter = StringRemove(@, query.cursor_pos - 1),
                        !.cursor_pos = @ - 1]
                ELSE Panicked("backspace")
    /\ UNCHANGED <<engine, scan, cond, lay, conf, ev, tmuxVars, pickerVars>>

\* Picker::delete
Delete ==
    /\ query.pc = "editing"
    /\ query' = IF query.cursor_pos = Len(query.filter) THEN query
                ELSE IF CanRemove(query.filter, query.cursor_pos)
                THEN [query EXCEPT
                        !.filter = StringRemove(@, query.cursor_pos)]
                ELSE Panicked("delete")
    /\ UNCHANGED <<engine, scan, cond, lay, conf, ev, tmuxVars, pickerVars>>

InitQuery ==
    /\ InitTmuxVars
    /\ InitPickerVars
    /\ engine = NoEngine
    /\ scan = NoScan
    /\ cond = NoCond
    /\ lay = NoLay
    /\ conf = NoConf
    /\ ev = NoEv
    /\ query = [pc |-> "editing", filter |-> <<>>, cursor_pos |-> 0,
                call |-> "none"]

NextQuery ==
    \/ MoveCursorLeft
    \/ MoveCursorRight
    \/ \E c \in QueryCharacters : UpdateFilter(c)
    \/ Backspace
    \/ Delete

SpecQuery == InitQuery /\ [][NextQuery]_vars

(***************************************************************************)
(* The sequential specification: one invocation at a time, the session     *)
(* table changing only between invocations.                                *)
(***************************************************************************)
InitTmux ==
    /\ sessions = {}
    /\ session_name_path_components \in 1..MaxComponents
    /\ inv = [i \in Invocations |-> IdleInvocation]
    /\ prev = NoPrev
    /\ InitPickerVars
    /\ InitRestVars

Step(i) ==
    \/ SnpHasSession(i)
    \/ SnpTwmRoot(i)
    \/ OpenWorkspaceName(i)
    \/ GsnHasSession(i)
    \/ GsnTwmRoot(i)
    \/ OwHasSession(i)
    \/ OwCreateSession(i)
    \/ OwSendKeys(i)
    \/ OwAttach(i)
    \/ OwgName(i)
    \/ GgnHasSession(i)
    \/ OwgCreateSession(i)
    \/ OwgAttach(i)

NextTmux ==
    \/ \E i \in SeqInvocations, path \in Paths, try_grouping \in BOOLEAN,
          forced \in ForcedNames \cup {NoName}, dont_attach \in BOOLEAN :
          HandleWorkspaceSelection(i, path, try_grouping, forced, dont_attach)
    \/ \E i \in SeqInvocations : Step(i)
    \/ \E i \in SeqInvocations : Exit(i)
    \/ \E name \in ForeignNames : ExternalNewSession(name)
    \/ \E s \in sessions : ExternalKillSession(s.name)

SpecTmux == InitTmux /\ [][NextTmux]_vars

(***************************************************************************)
(* The concurrent specification: two invocations of the tool, started in   *)
(* any order on a server without sessions, run once each; their tmux       *)
(* commands interleave in every way.                                       *)
(***************************************************************************)
NextRace ==
    \/ \E i \in Invocations, path \in Paths, try_grouping \in BOOLEAN,
          forced \in ForcedNames \cup {NoName}, dont_attach \in BOOLEAN :
          HandleWorkspaceSelection(i, path, try_grouping, forced, dont_attach)
    \/ \E i \in Invocations : Step(i)

SpecRace == InitTmux /\ [][NextRace]_vars

(***************************************************************************)
(* The specification of failing opens: one invocation at a time opening a  *)
(* path given with -p, the resolution of the commands ending well or not,  *)
(* and the session table changing at any time.                             *)
(***************************************************************************)
\* the tmux commands of open_workspace
OpenWorkspaceStep(i) ==
    \/ OpenWorkspaceName(i)
    \/ GsnHasSession(i)
    \/ GsnTwmRoot(i)
    \/ OwHasSession(i)
    \/ OwCreateSession(i)
    \/ OwSendKeys(i)
    \/ OwAttach(i)

NextFailing ==
    \/ \E i \in SeqInvocations, path \in Paths, dont_attach \in BOOLEAN,
          layout_result \in LayoutResults :
          HandleWorkspaceSelectionLayout(i, path, dont_attach, layout_result)
    \/ \E i \in SeqInvocations : OpenWorkspaceStep(i)
    \/ \E i \in SeqInvocations : Exit(i)
    \/ \E name \in ForeignNames : NewSessionMeanwhile(name)
    \/ \E s \in sessions : KillSessionMeanwhile(s.name)
    \/ \E s \in sessions : ExternalKillSession(s.name)

SpecFailing == InitTmux /\ [][NextFailing]_vars

(***************************************************************************)
(* The picker's specification: one run of Picker::get_selection on the     *)
(* workspace picker, with the scanner thread pushing candidates.           *)
(***************************************************************************)
InitPicker ==
    /\ sessions = {}
    /\ session_name_path_components = 1
    /\ inv = [i \in Invocations |-> IdleInvocation]
    /\ prev = NoPrev
    /\ InitPickerVars
    /\ InitRestVars

NextPicker ==
    \/ \E fail_at \in EnterFailures \cup {"none", "Terminal::new"} :
          GetSelectionEnter(fail_at)
    \/ Draw
    \/ DrawError
    \/ DrawPanic
    \/ NextTick
    \/ \E key \in Keys : NextKey(key)
    \/ NextError
    \/ \E c \in Candidates : InjectorPush(c)

SpecPicker == InitPicker /\ [][NextPicker]_vars

\* the picker's run followed by the handler's match on what it returned
NextHandler ==
    \/ NextPicker
    \/ HandleSelection

SpecHandler == InitPicker /\ [][NextHandler]_vars

(***************************************************************************)
(* The match engine's specification: a query has been matched against the  *)
(* items pushed, a character is typed at the end of the query, and the      *)
(* engine is ticked until the new query has been matched.                  *)
(***************************************************************************)
\* the characters of a query: letters and the `!` of a negated atom
QueryChars == FilterChars \cup {"!"}

Queries == UNION {[1..n -> QueryChars] : n \in 0..MaxFilterLen}

\* the candidates pushed so far, in the order they were pushed
PushOrders == UNION {Orders(S) : S \in SUBSET Candidates}

Range(q) == {q[i] : i \in 1..Len(q)}

InitMatch ==
    /\ InitTmuxVars
    /\ InitTerminal
    /\ scan = NoScan
    /\ cond = NoCond
    /\ lay = NoLay
    /\ conf = NoConf
    /\ ev = NoEv
    /\ query = NoQuery
    /\ \E items \in PushOrders, q \in Queries :
          /\ picker = [filter |-> q, cursor_pos |-> Len(q), selection |-> NoRow,
                       should_exit |-> FALSE]
          /\ matcher \in
                {[items |-> items, pattern |-> q, status |-> "Unchanged",
                  pending |-> NoRun, worker_count |-> Len(items),
                  snapshot |-> r] :
                    r \in Results(items, [pattern |-> q, count |-> Len(items)])}
          /\ unscanned = Candidates \ Range(items)
    /\ engine = [pc |-> "ready", before |-> Range(matcher.snapshot.matched)]

\* a character key with the cursor at the end of the query:
\* Picker::update_filter
TypeAtEnd(c) ==
    /\ engine.pc = "ready"
    /\ LET u == update_filter(picker, matcher, c)
       IN  /\ picker' = u.picker
           /\ matcher' = u.matcher
    /\ engine' = [engine EXCEPT !.pc = "typed"]
    /\ UNCHANGED <<unscanned, gs, tui, scan, cond, lay, conf, ev, query, tmuxVars>>

\* Picker::render ticks the engine; the query is matched once no run of the
\* worker is outstanding
TickUntilMatched ==
    /\ engine.pc = "typed"
    /\ \E m \in Tick(matcher) :
          /\ matcher' = m
          /\ engine' = [engine EXCEPT
                          !.pc = IF m.pending = NoRun THEN "matched" ELSE "typed"]
    /\ UNCHANGED <<picker, unscanned, gs, tui, scan, cond, lay, conf, ev, query, tmuxVars>>

NextMatch ==
    \/ \E c \in QueryChars : TypeAtEnd(c)
    \/ TickUntilMatched

SpecMatch == InitMatch /\ [][NextMatch]_vars

(***************************************************************************)
(* Part I: the claims.                                                     *)
(***************************************************************************)
\* invocation i is an auto-named open_workspace of the path the previous
\* invocation opened, auto-named too, with the session table as that
\* invocation left it
SecondOpen(i) ==
    /\ inv[i].forced = NoName
    /\ inv[i].group = NoName
    /\ ~inv[i].try_grouping
    /\ inv[i].prior # NoPrev
    /\ inv[i].prior.path = inv[i].path

\* C1: an auto-named open_workspace(P) that follows an auto-named
\* open_workspace(P), with no change to the session table in between,
\* derives the same session name, issues no create-session and attaches
\* (unless -d) to the session of the first run.
NameResolutionIdempotent ==
    \A i \in Invocations :
        inv[i].pc = "done" /\ SecondOpen(i) =>
            /\ inv[i].result = "ok"
            /\ inv[i].name = inv[i].prior.name
            /\ ~inv[i].created
            /\ inv[i].dont_attach \/ inv[i].attached = inv[i].prior.name

\* C1 witness: a second open of the same path has attached to the session
\* of the first, whose name needed more components than configured
SecondOpenAttached ==
    \E i \in Invocations :
        /\ inv[i].pc = "done" /\ SecondOpen(i)
        /\ inv[i].attached = inv[i].prior.name
        /\ inv[i].k > session_name_path_components
        /\ inv[i].tries > 1

\* C2, as claimed: a candidate of k components that is taken by a session
\* whose TWM_ROOT is unreadable, absent or another path is followed by the
\* candidate of k + 1 components; with only a foreign session `b`, the path
\* /f/b and session_name_path_components = 1 the resolved name is f/b.
RetryWithOneMoreComponent ==
    \A i \in Invocations :
        /\ inv[i].pc \in {"gsn_has", "gsn_env"} /\ inv[i].prevk > 0
              => inv[i].k = inv[i].prevk + 1
        /\ ( /\ inv[i].pc = "ow_has" /\ inv[i].forced = NoName
              /\ inv[i].path = PathFB
              /\ session_name_path_components = 1
              /\ sessions = {ForeignSession(<<"b">>)} )
              => inv[i].name = <<"f", "/", "b">>

\* C3: the name get_session_name_recursive returns for P is the name of no
\* session, or of a session whose TWM_ROOT is readable and equal to P.
ResolvedNameFreeOrOwn ==
    \A i \in Invocations :
        inv[i].pc = "ow_has" /\ inv[i].forced = NoName =>
            \/ ~tmux_has_session(inv[i].name)
            \/ /\ TwmRootReadable(inv[i].name)
               /\ get_twm_root_for_session(inv[i].name) = inv[i].path

\* C3 witness: after passing over a name taken by another session the
\* resolution has returned the name of the path's own live session
ResolvedToOwnSessionAfterCollision ==
    \E i \in Invocations :
        /\ inv[i].pc = "ow_has" /\ inv[i].forced = NoName
        /\ inv[i].tries > 1
        /\ tmux_has_session(inv[i].name)

\* C4, as claimed: no two live sessions made by auto-named open_workspace
\* calls carry the same TWM_ROOT.
NoTwoSessionsForOnePath ==
    \A s, t \in sessions :
        /\ s.origin = "auto" /\ t.origin = "auto"
        /\ s.env["TWM_ROOT"] = t.env["TWM_ROOT"]
        => s = t

\* the number of components path.split('/') yields
NumComponents(path) == Len(Split(path))

\* C5, as claimed: get_session_name_recursive terminates and tries no more
\* candidate names than the path has components.
ResolutionBoundedByPathDepth ==
    \A i \in Invocations :
        /\ inv[i].pc \in {"gsn_has", "gsn_env", "ow_has"} /\ inv[i].forced = NoName
              => inv[i].tries <= NumComponents(inv[i].path)
        /\ inv[i].pc = "done" /\ ~inv[i].try_grouping
              => inv[i].result # "overflow"

\* C6, as claimed: a modified selection of P, made while the session an
\* auto-named open of P has just resolved to is live, finds that session
\* and creates the new session in its group.
GroupingFindsOpenedSession ==
    \A i \in Invocations :
        ( /\ inv[i].try_grouping
          /\ inv[i].pc \notin {"idle", "snp_has", "snp_env"}
          /\ inv[i].prior # NoPrev
          /\ inv[i].prior.path = inv[i].path )
        => /\ inv[i].group = inv[i].prior.name
           /\ inv[i].pc = "done" /\ inv[i].result = "ok" =>
                 \E s \in sessions : /\ s.name = inv[i].name
                                     /\ s.origin = "group"
                                     /\ s.group = inv[i].prior.name

(***************************************************************************)
(* Part II: the claims.                                                    *)
(***************************************************************************)
\* C7, as claimed: after each render the highlighted row is none exactly
\* when no item is matched, and otherwise an index below the number of
\* matched items.
HighlightInRangeAfterRender ==
    gs.pc = "next" =>
        IF matched_item_count(matcher) = 0
        THEN picker.selection = NoRow
        ELSE picker.selection \in 0..(matched_item_count(matcher) - 1)

\* the highlighted row is a row of the last rendered snapshot
RowHighlighted ==
    picker.selection # NoRow /\ picker.selection < matched_item_count(matcher)

\* C8: an Enter ends the picker exactly when a row of the last rendered
\* snapshot is highlighted; the result is then that row's text, as
\* ModifiedSelection with Ctrl, Shift or Alt and as Selection without;
\* otherwise the picker goes on with query and highlight unchanged.
EnterSelectsHighlightedRow ==
    [][ gs.pc = "next" /\ gs'.last \in {"Enter", "ModifiedEnter"} =>
          IF RowHighlighted
          THEN /\ gs'.pc = "returned" /\ gs'.result = "ok"
               /\ gs'.selection =
                     PickerSelectionOf(IF gs'.last = "ModifiedEnter"
                                       THEN "ModifiedSelection" ELSE "Selection",
                                       matcher.snapshot.matched[picker.selection + 1])
          ELSE /\ gs'.pc = "draw"
               /\ picker' = picker
               /\ matcher' = matcher ]_vars

\* C8 witness: a modified Enter has returned the second row of the snapshot
ModifiedEnterReturnedSecondRow ==
    /\ gs.pc = "returned" /\ gs.last = "ModifiedEnter"
    /\ picker.selection = 1
    /\ gs.selection = PickerSelectionOf("ModifiedSelection",
                                        matcher.snapshot.matched[2])

\* C9: once an Escape has been handled get_selection has returned
\* PickerSelection::None, with no render and no event after it, whatever
\* the scanner still has to push.
EscapeReturnsNone ==
    gs.last = "Esc" =>
        /\ gs.pc = "returned" /\ gs.result = "ok"
        /\ gs.selection = PickerSelectionNone

\* C9 witness: an Escape has ended the picker in the middle of the scan
EscapedDuringScan ==
    /\ gs.last = "Esc" /\ gs.pc = "returned"
    /\ unscanned # {} /\ matcher.items # <<>>

\* C10: once Tui::enter has run, raw mode is off and the alternate screen
\* is left when get_selection has returned, and when the previous panic
\* hook reports a panic.
TerminalRestoredOnEveryExit ==
    gs.entered =>
        /\ gs.pc \in {"returned", "panicked"} =>
              ~tui.raw_mode /\ ~tui.alternate_screen
        /\ gs.pc = "panicked" => gs.restored_at_report

\* C10 witness: get_selection has returned the error of a draw that
\* followed a Tick
ReturnedDrawError ==
    /\ gs.pc = "returned" /\ gs.result = "err"
    /\ gs.entered /\ gs.last = "Tick"

\* C11: whenever a key changes the query, the pattern of the match engine
\* is the new query, and the engine is asked for an incremental (append)
\* update only if the old query is a prefix of the new one; a Backspace or
\* Delete that changes the query, and an insertion after which the old
\* query is no prefix, ask for a full re-rank.
AppendOnlyForExtension ==
    [][ picker'.filter # picker.filter =>
          /\ matcher'.pattern = picker'.filter
          /\ IF StartsWith(picker'.filter, picker.filter)
             THEN matcher'.status =
                     (IF matcher.status = "Rescore" THEN "Rescore" ELSE "Update")
             ELSE matcher'.status = "Rescore" ]_vars

\* C11 witness: a Backspace or Delete has shortened a two-letter query and
\* the engine has been asked for a full re-rank
RescoreAfterRemoval ==
    /\ gs.pc = "draw" /\ gs.last = "Key"
    /\ Len(picker.filter) = 1 /\ picker.cursor_pos = 1
    /\ matcher.status = "Rescore"

\* C12, as claimed: typing a character at the end of a query never yields
\* a matched set with an item the query did not match.
AppendNeverWidens ==
    engine.pc = "matched" =>
        Range(matcher.snapshot.matched) \subseteq engine.before

\* C12, amended: typing a character at the end of a query never yields a
\* matched set with an item the query did not match, when the query and
\* the character are free of the engine's pattern syntax (no `!`).
AppendOfPlainCharNeverWidens ==
    engine.pc = "matched" /\ "!" \notin Range(picker.filter) =>
        Range(matcher.snapshot.matched) \subseteq engine.before

\* C12 witness: a letter typed after a letter has narrowed the matched set
\* to some but not all of the items matched before
PlainCharNarrowed ==
    /\ engine.pc = "matched" /\ "!" \notin Range(picker.filter)
    /\ Len(picker.filter) = 2
    /\ Range(matcher.snapshot.matched) # {}
    /\ Range(matcher.snapshot.matched) # engine.before

\* the definitions of the list L that the directory meets, by position
Matching(dir, L) ==
    {i \in 1..Len(L) : \A j \in 1..Len(L[i].conditions) :
                           meets_condition(L[i].conditions[j], dir)}

\* C19: get_workspace_type_for_path(D, L) is the name of the first
\* definition of L whose conditions all hold for D, and none when no
\* definition matches; a directory with s (setup.py) and g (.git) has type
\* py under [py, git].
FirstMatchingDefinitionWins ==
    cond.pc = "type" =>
        LET L == cond.workspace_definitions
            M == Matching(cond.dir, L)
        IN  /\ M = {} => cond.type = NoType
            /\ M # {} => \E i \in M : /\ \A j \in M : i <= j
                                       /\ cond.type = L[i].name
            /\ ( /\ L = <<PyDefinition, GitDefinition>>
                 /\ FilesOf(cond.dir) = {<<"g">>, <<"s">>} )
                  => cond.type = <<"p", "y">>

\* C19 witness: a directory with both files has been given the type py under
\* [py, git]
BothFilesResolvedToPy ==
    /\ cond.pc = "type"
    /\ cond.workspace_definitions = <<PyDefinition, GitDefinition>>
    /\ FilesOf(cond.dir) = {<<"g">>, <<"s">>}
    /\ cond.type = <<"p", "y">>

\* the file is in the directory
InDirectory(dir, file) == file \in FilesOf(dir)

\* C20: HasAnyFile holds iff some listed file is in the directory,
\* HasAllFiles iff every listed file is, MissingAnyFile iff some listed
\* file is absent, MissingAllFiles iff every listed file is absent, Null
\* always; the conditions of a definition are combined by AND.
ConditionsAreQuantifiers ==
    cond.pc = "conditions" =>
        /\ \A i \in 1..Len(cond.conditions) :
              LET c == cond.conditions[i]
                  F == Range(c.files)
              IN  cond.each[i] =
                    CASE c.kind = "HasAnyFile" ->
                            \E f \in F : InDirectory(cond.dir, f)
                      [] c.kind = "HasAllFiles" ->
                            \A f \in F : InDirectory(cond.dir, f)
                      [] c.kind = "MissingAnyFile" ->
                            \E f \in F : ~InDirectory(cond.dir, f)
                      [] c.kind = "MissingAllFiles" ->
                            \A f \in F : ~InDirectory(cond.dir, f)
                      [] c.kind = "Null" -> TRUE
        /\ cond.met = \A i \in 1..Len(cond.conditions) : cond.each[i]

\* C20 witness: HasAllFiles of two files, one of them absent, has been found
\* not to hold next to a MissingAnyFile that holds
HasAllFailedOnOneAbsentFile ==
    /\ cond.pc = "conditions" /\ Len(cond.conditions) = 2
    /\ cond.conditions[1] = Condition("HasAllFiles", <<<<"g">>, <<"x">>>>)
    /\ cond.conditions[2].kind = "MissingAnyFile"
    /\ FilesOf(cond.dir) = {<<"g">>}
    /\ ~cond.each[1] /\ cond.each[2] /\ ~cond.met

(***************************************************************************)
(* Part IV: the claims.                                                    *)
(***************************************************************************)
\* the final component of a path
FinalComponent(path) == components(path)[Len(components(path))]

\* the directories on the way from `top` down to the path, both included
FromDownTo(top, path) ==
    {d \in Dirs : /\ d = top \/ Beneath(d, top)
                  /\ d = path \/ Beneath(path, d)}

\* C13, as claimed: over a scan of all search paths every path is pushed at
\* most once.
PushedAtMostOnce ==
    scan.pc # "off" => \A r \in scan.pushed : r.nth = 1

\* no search path is listed twice or lies beneath another one
SearchPathsDisjoint ==
    \A i, j \in 1..Len(scan.search_paths) :
        i # j => /\ scan.search_paths[i] # scan.search_paths[j]
                 /\ ~Beneath(scan.search_paths[i], scan.search_paths[j])

\* C13, amended: over a scan of search paths of which none is listed twice
\* or lies beneath another, every path is pushed at most once, whatever the
\* interleaving of the walker's workers.
PushedAtMostOnceFromDisjointPaths ==
    scan.pc # "off" /\ SearchPathsDisjoint =>
        \A r \in scan.pushed : r.nth = 1

\* C13 witness: the scan of two disjoint search paths has ended with pushes
\* from both, among them a directory that meets both definitions
ScannedTwoDisjointPaths ==
    /\ scan.pc = "done" /\ Len(scan.search_paths) = 2 /\ SearchPathsDisjoint
    /\ \E r, q \in scan.pushed : r.root = 1 /\ q.root = 2
    /\ \E r \in scan.pushed : FilesOf(r.path) = {<<"g">>, <<"s">>}

\* C14: no pushed candidate is a directory whose final component is
\* excluded, or lies beneath such a directory, also when it meets a
\* workspace definition.
NoCandidateFromExcludedSubtree ==
    scan.pc # "off" =>
        \A r \in scan.pushed : \A d \in Dirs :
            d = r.path \/ Beneath(r.path, d) =>
                FinalComponent(d) \notin scan.exclude_path_components

\* C14 witness: with n excluded the scan has ended, having handled /r/n
\* and /r/n/p, which meet a definition, without pushing them
ExcludedSubtreeSkipped ==
    /\ scan.pc = "done"
    /\ scan.exclude_path_components = {<<"n">>}
    /\ \E e, f \in scan.visited :
          /\ e.path = <<"/", "r", "/", "n">>
          /\ f.path = <<"/", "r", "/", "n", "/", "p">>
          /\ pushes(e.path, ScanDefinitions) = 1
          /\ pushes(f.path, ScanDefinitions) = 1
    /\ \A r \in scan.pushed :
          /\ r.path # <<"/", "r", "/", "n">>
          /\ ~Beneath(r.path, <<"/", "r", "/", "n">>)

\* C15, as claimed: a directory the walk comes to whose final component is
\* excluded is never listed, and no entry beneath it is ever yielded.
PrunedBeforeRecursing ==
    scan.pc # "off" =>
        /\ \A e \in scan.listed :
              FinalComponent(e.path) \notin scan.exclude_path_components
        /\ \A e \in scan.yielded \cup scan.visited :
              \A d \in FromDownTo(scan.search_paths[e.root], e.path) :
                  d # e.path =>
                      FinalComponent(d) \notin scan.exclude_path_components

\* the number of directories between the search path and the directory
DepthBelow(path, search_path) ==
    Len(components(path)) - Len(components(search_path))

\* C16: a directory at or beneath a search path that has no excluded
\* component and meets a workspace definition is never pushed from deeper
\* than max_search_depth below that search path, and once the scan has
\* ended it has been pushed from that search path iff its depth below it
\* is at most max_search_depth; with max_search_depth = 1 and the root /r,
\* /r/a is found and /r/a/b is not.
FoundIffWithinDepth ==
    scan.pc # "off" =>
        \A j \in 1..Len(scan.search_paths) :
            \A d \in FromDownTo(scan.search_paths[j], <<"/", "r", "/", "a", "/", "b">>)
                    \cup FromDownTo(scan.search_paths[j], <<"/", "r", "/", "n", "/", "p">>) :
                LET found == \E r \in scan.pushed : r.path = d /\ r.root = j
                    within == DepthBelow(d, scan.search_paths[j])
                                 <= scan.max_search_depth
                    qualifies ==
                        /\ \A i \in 1..Len(components(d)) :
                              components(d)[i] \notin scan.exclude_path_components
                        /\ \E i \in 1..Len(ScanDefinitions) :
                              path_meets_workspace_conditions(
                                  d, ScanDefinitions[i].conditions)
                IN  /\ found => within /\ qualifies
                    /\ scan.pc = "done" /\ qualifies /\ within => found

\* C16 witness: the scan of /r with max_search_depth = 1 has ended with
\* /r/a pushed and /r/a/b not
FoundAtDepthOneOnly ==
    /\ scan.pc = "done"
    /\ scan.search_paths = <<<<"/", "r">>>>
    /\ scan.max_search_depth = 1
    /\ \E r \in scan.pushed : r.path = <<"/", "r", "/", "a">>
    /\ \A r \in scan.pushed : r.path # <<"/", "r", "/", "a", "/", "b">>

(***************************************************************************)
(* Part I, continued: the environment and the layout of a session.         *)
(***************************************************************************)
\* C17, as claimed: every session the tool has created, by a plain open or
\* as a grouped session, carries TWM, TWM_ROOT (a workspace path), TWM_TYPE
\* (possibly empty) and TWM_NAME (its own name).
CreatedSessionsCarryEnv ==
    \A s \in sessions :
        s.origin \in {"auto", "forced", "group"} =>
            /\ s.env["TWM"] = <<"1">>
            /\ s.env["TWM_ROOT"] \in Paths
            /\ s.env["TWM_TYPE"] # Unset
            /\ s.env["TWM_NAME"] = s.name

\* the invocations that are sending the layout to the session
Senders(s) ==
    {i \in Invocations : inv[i].pc = "ow_send" /\ inv[i].name = s.name}

Numbered(g, n) == g \o <<"-">> \o Decimal(n)

\* C26: get_group_session_name(g) probes g-1 first and g-(n+1) after g-n
\* was found to exist, and returns g-n for the smallest n >= 1 that names
\* no session; the name it returns is unused in the session table.
GroupNameIsFirstFree ==
    [][\A i \in Invocations :
          LET g == inv[i].group
              n == inv'[i].name_iter
          IN  /\ inv[i].pc = "owg_name" /\ inv'[i].pc = "ggn_has" => n = 1
              /\ inv[i].pc = "ggn_has" /\ inv'[i].pc = "ggn_has" =>
                    /\ n = inv[i].name_iter + 1
                    /\ tmux_has_session(Numbered(g, n - 1))
              /\ inv[i].pc = "ggn_has" /\ inv'[i].pc = "owg_create" =>
                    /\ n >= 1
                    /\ inv'[i].name = Numbered(g, n)
                    /\ ~tmux_has_session(inv'[i].name)
                    /\ \A m \in 1..(n - 1) : tmux_has_session(Numbered(g, m))]_vars

\* C26 witness: with b-1 existing, the name returned for the group b is
\* b-2
SecondGroupedSessionNamed ==
    \E i \in Invocations :
        /\ inv[i].pc = "owg_create"
        /\ inv[i].forced = NoName
        /\ inv[i].group = <<"b">>
        /\ inv[i].name = <<"b", "-", "2">>
        /\ tmux_has_session(<<"b", "-", "1">>)

\* the names automatic naming can give the path
AutoNames(path) == {SessionNameNew(path, k) : k \in 1..(Len(Split(path)) + 1)}

\* C28: an open without -n that has ended well while a session made with
\* -n for the same path exists under a name automatic naming does not give
\* the path has not taken that session, neither to attach to it nor to
\* group with it: the session it opened bears one of the path's automatic
\* names and has the path as TWM_ROOT.
ForcedSessionInvisible ==
    \A i \in Invocations : \A s \in sessions :
        /\ inv[i].pc = "done" /\ inv[i].result = "ok"
        /\ inv[i].forced = NoName
        /\ s.origin = "forced" /\ s.env["TWM_ROOT"] = inv[i].path
        /\ s.name \notin AutoNames(inv[i].path)
        => /\ inv[i].name # s.name
           /\ inv[i].group # s.name
           /\ inv[i].group = NoName =>
                 \E t \in sessions :
                     /\ t.name = inv[i].name
                     /\ t.name \in AutoNames(inv[i].path)
                     /\ t.env["TWM_ROOT"] = inv[i].path

\* C28 witness: with the session j made by -n j for /f/b, an open of /f/b
\* without -n has created the session b and attached to it
AutoOpenCreatedBesideForced ==
    \E i \in Invocations :
        /\ inv[i].pc = "done" /\ inv[i].result = "ok"
        /\ inv[i].forced = NoName /\ inv[i].path = PathFB
        /\ inv[i].created /\ inv[i].name = <<"b">>
        /\ inv[i].attached = <<"b">>
        /\ \E s \in sessions :
              /\ s.name = <<"j">> /\ s.origin = "forced"
              /\ s.env["TWM_ROOT"] = PathFB

(***************************************************************************)
(* Part I, continued: two invocations at once.                             *)
(***************************************************************************)
\* C30, as claimed: when two invocations have opened the same path without
\* -n on a server that had no session, both have ended well, one session
\* with the path as TWM_ROOT exists, and both opened (and, unless -d,
\* attached to) that session.
BothOpensOfOnePathSucceed ==
    \A i, j \in Invocations :
        /\ i # j
        /\ inv[i].pc = "done" /\ inv[j].pc = "done"
        /\ inv[i].path = inv[j].path
        /\ inv[i].forced = NoName /\ inv[j].forced = NoName
        /\ ~inv[i].try_grouping /\ ~inv[j].try_grouping
        => /\ inv[i].result = "ok" /\ inv[j].result = "ok"
           /\ Cardinality({s \in sessions :
                               s.env["TWM_ROOT"] = inv[i].path}) = 1
           /\ inv[i].name = inv[j].name
           /\ ~inv[i].dont_attach => inv[i].attached = inv[i].name

(***************************************************************************)
(* Part III, continued: the definitions of the configuration file.         *)
(***************************************************************************)
\* C21, as claimed: a definition configured with has_all_files matches a
\* directory only if every file of the list is present in it.
HasAllFilesNeedsEveryFile ==
    cond.pc = "from" /\ cond.met
    /\ cond.config.has_all_files # Absent =>
        \A i \in 1..Len(cond.config.has_all_files) :
            exists(join(cond.dir, cond.config.has_all_files[i]))

(***************************************************************************)
(* Part V: the claims.                                                     *)
(***************************************************************************)
\* the commands of the layouts named, one layout after the other, each
\* being the commands of the layouts it inherits from followed by its own
RECURSIVE DepthFirst(_, _)
DepthFirst(names, layouts) ==
    IF names = <<>> THEN <<>>
    ELSE LET layout == get_layout_by_name(Head(names), layouts)
         IN  (IF layout = NoLayoutDefinition THEN <<>>
              ELSE DepthFirst(InheritsOf(layout), layouts)
                       \o CommandsOf(layout))
             \o DepthFirst(Tail(names), layouts)

\* C22: what get_commands_from_layout_name returns for a layout is the
\* flattened commands of each name of its inherits list, in listed order,
\* followed by the layout's own commands, nothing being left out the
\* second time a layout is reached.
FlattenIsDepthFirst ==
    lay.pc = "returned" /\ lay.stack = <<>> =>
        LET layout == get_layout_by_name(lay.name, lay.layouts)
        IN  IF layout = NoLayoutDefinition THEN lay.result = <<>>
            ELSE lay.result =
                     DepthFirst(InheritsOf(layout), lay.layouts)
                         \o CommandsOf(layout)

\* C22 witness: t inherits from c and b, c inherits from b; t flattens to
\* x, y, x, z, and on the way c has flattened to x, y
DiamondFlattened ==
    /\ lay.pc = "returned"
    /\ lay.name = <<"t">>
    /\ get_layout_by_name(<<"t">>, lay.layouts).inherits = <<<<"c">>, <<"b">>>>
    /\ get_layout_by_name(<<"c">>, lay.layouts).inherits = <<<<"b">>>>
    /\ lay.result = <<"x", "y", "x", "z">>

\* C23, as claimed: the commands of a newly created session are those of
\* the layout picked with -l if the flag is given, otherwise of the layout
\* of the nearest .twm.yaml, otherwise of the default_layout of the
\* definition the workspace matched, otherwise none.
CommandsFromOneSourceByPrecedence ==
    lay.pc \in {"returned", "none"} =>
        LET local_config == find_config_file(lay.chain)
            default_layout ==
                IF lay.matched = 0 THEN NoLayout
                ELSE lay.workspace_definitions[lay.matched].default_layout
        IN  lay.result =
                IF lay.layout THEN DepthFirst(<<lay.selection>>, lay.layouts)
                ELSE IF local_config # NoLocal
                THEN DepthFirst(InheritsOf(local_config), lay.layouts)
                         \o CommandsOf(local_config)
                ELSE IF default_layout # NoLayout
                THEN DepthFirst(<<default_layout>>, lay.layouts)
                ELSE <<>>

\* C24, as claimed: a configuration that has been loaded has no workspace
\* definition whose default_layout names a layout that is not configured.
UnknownDefaultLayoutRejectedAtLoad ==
    lay.pc \notin {"off", "raw", "load_err"} =>
        \A i \in 1..Len(lay.workspace_definitions) :
            lay.workspace_definitions[i].default_layout # NoLayout =>
                get_layout_by_name(lay.workspace_definitions[i].default_layout,
                                   lay.layouts) # NoLayoutDefinition

(***************************************************************************)
(* Part II, continued: leaving the picker without a selection.             *)
(***************************************************************************)
\* C25, as claimed: when the picker was left without a selection, the
\* handler does not end with the error that a failure of the terminal or
\* of a subprocess ends with.
CancellationIsNotAnError ==
    /\ gs.pc = "handled"
    /\ gs.result = "ok"
    /\ gs.selection.kind = "None"
    => gs.outcome # "Err"

(***************************************************************************)
(* Part VI: the claims.                                                    *)
(***************************************************************************)
\* the characters tmux does not allow in a session name
IllegalChars == {".", ":"}

\* C27, as claimed: SessionName::new(path, k) is the last min(k, n) of the
\* n components of the path, joined in their order, with every character
\* that is illegal in a session name replaced by an underscore.
NameIsSanitizedLastComponents ==
    conf.pc = "name" =>
        LET parts == Split(conf.path)
            n == Len(parts)
            m == IF conf.path_components < n THEN conf.path_components ELSE n
            raw == Join(SubSeq(parts, n - m + 1, n))
        IN  /\ Len(conf.result) = Len(raw)
            /\ \A i \in 1..Len(raw) :
                  conf.result[i] = IF raw[i] \in IllegalChars THEN "_"
                                   ELSE raw[i]

\* C29: get_config_path returns the value of TWM_CONFIG_FILE when that is
\* set and not empty, whether the file exists or not; when it is unset or
\* empty, it returns the XDG path if that file exists and none if it does
\* not, the same for unset as for empty.
ConfigPathFromEnvOrXdg ==
    conf.pc = "config_path" =>
        /\ conf.twm_config_file \notin {Unset, <<>>} =>
              conf.result = conf.twm_config_file
        /\ conf.twm_config_file \in {Unset, <<>>} =>
              /\ conf.xdg = "exists" <=> conf.result = XdgConfigPath
              /\ conf.xdg = "missing" <=> conf.result = NoPath
              /\ conf.result = get_config_path(Unset, conf.xdg, conf.files)
              /\ conf.result = get_config_path(<<>>, conf.xdg, conf.files)

\* C29 witness: TWM_CONFIG_FILE names a file that does not exist, and is
\* returned
MissingOverrideReturned ==
    /\ conf.pc = "config_path"
    /\ conf.twm_config_file = <<"/", "d">>
    /\ conf.twm_config_file \notin conf.files
    /\ conf.xdg = "exists"
    /\ conf.result = <<"/", "d">>

(***************************************************************************)
(* Part I, continued: two invocations on different paths.                  *)
(***************************************************************************)
\* C31, as claimed: when two invocations open different paths without -n,
\* an invocation that has ended well has opened a session whose TWM_ROOT is
\* its own path: it has neither attached to nor left alone (skipping
\* new-session) a session the other invocation made for the other path.
NoSessionAdoptedAcrossPaths ==
    \A i, j \in Invocations :
        /\ i # j
        /\ inv[i].pc = "done" /\ inv[i].result = "ok"
        /\ inv[i].forced = NoName /\ inv[j].forced = NoName
        /\ ~inv[i].try_grouping /\ ~inv[j].try_grouping
        /\ inv[j].path # NoName /\ inv[i].path # inv[j].path
        => /\ tmux_has_session(inv[i].name)
           /\ get_twm_root_for_session(inv[i].name) = inv[i].path

(***************************************************************************)
(* Part I, continued: failing commands.                                    *)
(***************************************************************************)
\* new-session of invocation i would exit non-zero: the name is in use
CreateFails(i) == inv[i].pc = "ow_create" /\ tmux_has_session(inv[i].name)

\* send-keys of invocation i would exit non-zero: the session is gone
SendFails(i) == inv[i].pc = "ow_send" /\ ~tmux_has_session(inv[i].name)

\* C32: when new-session or a send-keys of open_workspace exits non-zero,
\* open_workspace returns an error at that step: the session table is as it
\* was, no further command has been sent, nothing is attached, and the
\* invocation that has ended runs no further command.
FailedCommandEndsOpenWorkspace ==
    [][\A i \in Invocations :
          /\ (CreateFails(i) \/ SendFails(i)) /\ inv'[i] # inv[i]
             => /\ inv'[i].pc = "done" /\ inv'[i].result = "err"
                /\ inv'[i].sent = inv[i].sent
                /\ inv'[i].attached = NoName
                /\ sessions' = sessions
          /\ inv[i].pc = "done" /\ inv[i].result = "err" /\ inv'[i] # inv[i]
             => inv'[i] = IdleInvocation /\ sessions' = sessions]_vars

\* C32 witness: the second send-keys of an open has failed, after the first
\* was sent, and the open has ended with an error
SecondSendKeysFailed ==
    \E i \in Invocations :
        /\ inv[i].pc = "done" /\ inv[i].result = "err"
        /\ inv[i].created /\ inv[i].layout_result = "ok"
        /\ inv[i].sent = 1 /\ Len(inv[i].commands) = 2
        /\ inv[i].attached = NoName

\* C33, as claimed: when open_workspace has returned an error, the session
\* it made in that call, if it made one, is not in the session table.
FailedOpenLeavesNoSession ==
    \A i \in Invocations :
        inv[i].pc = "done" /\ inv[i].result = "err" /\ inv[i].created
        => ~\E s \in sessions :
               /\ s.name = inv[i].name
               /\ s.origin = "auto"
               /\ s.env["TWM_ROOT"] = inv[i].path

(***************************************************************************)
(* Part V, continued: inheritance cycles.                                  *)
(***************************************************************************)
\* the names the layout found for `name` inherits from
InheritedBy(name, layouts) ==
    LET layout == get_layout_by_name(name, layouts)
    IN  IF layout = NoLayoutDefinition THEN {}
        ELSE {InheritsOf(layout)[i] : i \in 1..Len(InheritsOf(layout))}

\* the names reached from the names of `from` in one to n steps of inherits
RECURSIVE ReachedWithin(_, _, _)
ReachedWithin(from, layouts, n) ==
    IF n = 0 THEN {}
    ELSE LET next == UNION {InheritedBy(name, layouts) : name \in from}
         IN  next \cup ReachedWithin(next, layouts, n - 1)

\* the names reached from `name` by one or more steps of inherits
InheritedThrough(name, layouts) ==
    ReachedWithin({name}, layouts, Len(layouts))

\* a layout that inherits from itself, directly or through a chain, is the
\* starting layout or is reached from it
CycleReachable(name, layouts) ==
    \E n \in {name} \cup InheritedThrough(name, layouts) :
        /\ get_layout_by_name(n, layouts) # NoLayoutDefinition
        /\ n \in InheritedThrough(n, layouts)

\* C34: a call of get_commands_from_layout_name returns if and only if no
\* inheritance cycle is reachable from its layout: without one it returns
\* after finitely many steps, with one it never returns and its recursion
\* grows deeper than the stack has room for.
TerminatesIffAcyclic ==
    /\ [](lay.pc = "returned" => ~CycleReachable(lay.name, lay.layouts))
    /\ [](lay.pc = "overflow" => CycleReachable(lay.name, lay.layouts))
    /\ (lay.pc = "call" /\ ~CycleReachable(lay.name, lay.layouts))
           ~> (lay.pc = "returned")
    /\ (lay.pc = "call" /\ CycleReachable(lay.name, lay.layouts))
           ~> (lay.pc = "overflow")

\* C34 witness: b inherits from c and c from b; the call for t, which
\* inherits from c, has outgrown the stack
MutualInheritanceOverflowed ==
    /\ lay.pc = "overflow"
    /\ lay.name = <<"t">>
    /\ <<"c">> \in InheritedBy(<<"b">>, lay.layouts)
    /\ <<"b">> \in InheritedBy(<<"c">>, lay.layouts)
    /\ <<"c">> \in InheritedBy(<<"t">>, lay.layouts)

(***************************************************************************)
(* Part VII: the claims.                                                   *)
(***************************************************************************)
\* the picker Picker::update leaves after the key presses, one after the
\* other
RECURSIVE UpdatedBy(_, _)
UpdatedBy(p, presses) ==
    IF presses = <<>> THEN p
    ELSE UpdatedBy(update(p, matcher, Head(presses).key).picker, Tail(presses))

\* the key presses among the events
RECURSIVE KeyPresses(_)
KeyPresses(events) ==
    IF events = <<>> THEN <<>>
    ELSE IF Head(events) = TickSent THEN KeyPresses(Tail(events))
    ELSE <<Head(events)>> \o KeyPresses(Tail(events))

\* C35: the picker handles the events of its channel in the order its event
\* thread sent them and each once: the event it handles is the one that has
\* waited longest, and is taken out of the channel; the key presses it has
\* handled and those that wait in the channel are, in this order, the key
\* presses its thread has read, which were read in the order they were
\* pressed; and the query and the cursor are what applying the handled key
\* presses in that order gives.
EventsHandledInOrderSent ==
    /\ [](ev.pc = "on" /\ PickerRunning =>
            /\ ev.applied \o KeyPresses(ev.channel) = ev.read
            /\ \A i, j \in 1..Len(ev.read) : i < j => ev.read[i].n < ev.read[j].n
            /\ picker.filter = UpdatedBy(NewPicker, ev.applied).filter
            /\ picker.cursor_pos = UpdatedBy(NewPicker, ev.applied).cursor_pos)
    /\ [][gs.pc = "next" /\ gs'.pc # "next" =>
            /\ ev.channel # <<>>
            /\ gs'.last = KindOf(Head(ev.channel).key)
            /\ gs'.pc = "draw" => ev'.channel = Tail(ev.channel)]_vars

\* C35 witness: a and b were pressed, read and handled in this order while
\* a tick waited in the channel between the two, and the query is ab
TwoKeysHandledInOrder ==
    /\ ev.pc = "on" /\ PickerRunning
    /\ Len(ev.applied) = 2
    /\ ev.applied[1] = Press(Key("Char", "a", NoMods), 1)
    /\ ev.applied[2] = Press(Key("Char", "b", NoMods), 2)
    /\ picker.filter = <<"a", "b">>
    /\ ev.channel = <<TickSent>>

\* C37, as claimed: no key press made while a picker runs has been read by
\* an event thread other than that picker's.
KeysReachTheRunningPicker ==
    ev.pc = "on" => ev.taken_by = {}

\* the candidate is in the snapshot Picker::render took last
Rendered(c) ==
    \E i \in 1..Len(matcher.snapshot.matched) : matcher.snapshot.matched[i] = c

\* the scanner has pushed the candidate
Pushed(c) == \E i \in 1..Len(matcher.items) : matcher.items[i] = c

\* C36: while a picker runs and no key is pressed, an event keeps arriving
\* in the picker's channel, the render loop that waits for an event goes on
\* to render, and every candidate the scanner has pushed is in a rendered
\* snapshot at some later time.
TicksKeepThePickerRendering ==
    /\ (PickerRunning /\ ev.pressed = 0) ~> (ev.channel # <<>>)
    /\ (gs.pc = "next" /\ ev.pressed = 0) ~> (gs.pc = "draw")
    /\ \A c \in EventCandidates :
          (PickerRunning /\ ev.pressed = 0 /\ Pushed(c)) ~> Rendered(c)

\* C36 witness: no key was pressed and both candidates are in the snapshot
\* of a running picker
AllCandidatesRendered ==
    /\ ev.pc = "on" /\ PickerRunning
    /\ ev.pressed = 0
    /\ \A c \in EventCandidates : Rendered(c)

(***************************************************************************)
(* Part VIII: the claim.                                                   *)
(***************************************************************************)
\* C38, as claimed: whatever keys were pressed, cursor_pos is between 0 and
\* the length of the query and on a character boundary of it, and no
\* insertion, Backspace or Delete has panicked.
CursorOnCharBoundary ==
    query.pc # "off" =>
        /\ query.pc # "panicked"
        /\ 0 <= query.cursor_pos /\ query.cursor_pos <= Len(query.filter)
        /\ is_char_boundary(query.filter, query.cursor_pos)

(***************************************************************************)
(* Part IV, continued: components above the search path.                   *)
(***************************************************************************)
\* C39, as claimed: once the scan has ended, a directory at or beneath a
\* search path, within max_search_depth of it, that meets a workspace
\* definition and has no excluded component from the search path downwards
\* has been pushed from that search path, whatever the components above the
\* search path are.
ExclusionOnlyBelowSearchPath ==
    scan.pc = "done" =>
        \A j \in 1..Len(scan.search_paths) : \A d \in Dirs :
            /\ d = scan.search_paths[j] \/ Beneath(d, scan.search_paths[j])
            /\ DepthBelow(d, scan.search_paths[j]) <= scan.max_search_depth
            /\ \A c \in FromDownTo(scan.search_paths[j], d) :
                  FinalComponent(c) \notin scan.exclude_path_components
            /\ \E i \in 1..Len(ScanDefinitions) :
                  path_meets_workspace_conditions(d, ScanDefinitions[i].conditions)
            => \E r \in scan.pushed : r.path = d /\ r.root = j

====
